---- MODULE Spec2Model ----
(***************************************************************************)
(* A model of the 16-state navigation EKF of this repository: the dense    *)
(* matrix core (matrix.c), the quaternion helpers (quaternion.c), the      *)
(* filter life cycle and configuration (ekf_init.c), the predictor         *)
(* (ekf_predict.c) and the three measurement updates (ekf_update.c).       *)
(*                                                                         *)
(* A C float is modelled as a fixed-point number: the integer v stands for *)
(* the real v / Scale.  Sums and differences are exact; every product,     *)
(* quotient and square root is rounded to the nearest grid point, as a     *)
(* float operation rounds to the nearest float.                            *)
(*                                                                         *)
(* A local of the C code that is read more than once is bound with With,   *)
(* so that it is a value computed once, as the local is.                   *)
(***************************************************************************)
EXTENDS Integers, Sequences, FiniteSets, TLC

\* ------------------------------------------------------------ float model

Scale == 1000

\* Op applied to the value a
With(a, Op(_)) == Op(a)

Abs(a) == IF a < 0 THEN -a ELSE a

RoundDiv(n, d) ==
    LET q == (Abs(n) + (Abs(d) \div 2)) \div Abs(d)
    IN  IF n = 0 THEN 0 ELSE IF (n < 0) = (d < 0) THEN q ELSE -q

\* the float literal n/d, e.g. 0.01f is F(1, 100)
F(n, d) == RoundDiv(n * Scale, d)

FMul(a, b) == IF a = 0 \/ b = 0 THEN 0 ELSE RoundDiv(a * b, Scale)

FDiv(a, b) == IF a = 0 THEN 0 ELSE RoundDiv(a * Scale, b)

RECURSIVE ISqrtBetween(_, _, _)
ISqrtBetween(n, lo, hi) ==
    IF lo >= hi THEN lo
    ELSE LET mid == (lo + hi + 1) \div 2
         IN  IF mid * mid <= n THEN ISqrtBetween(n, mid, hi)
             ELSE ISqrtBetween(n, lo, mid - 1)

\* sqrtf: the root of a / Scale, on the grid
FSqrt(a) ==
    IF a <= 0 THEN 0
    ELSE With(ISqrtBetween(a * Scale, 0, 46340), LAMBDA r :
              IF a * Scale - r * r > r THEN r + 1 ELSE r)

\* the guard `v < 1e-6f' of a non-negative float v
EpsDen == 1000000
BelowEps(v) == v < (Scale + EpsDen - 1) \div EpsDen

\* ------------------------------------------------------------ matrix.c

MATRIX_MAX_SIZE == 16

\* sizes and indices are uint8_t
UInt8Max == 255

Tup(f) == f \o <<>>

\* a Matrix value: the logical shape and the cells inside it, row by row
MkMatrix(r, c, E(_, _)) ==
    [rows |-> r, cols |-> c,
     data |-> Tup([i \in 1..r |-> Tup([j \in 1..c |-> E(i - 1, j - 1)])])]

At(m, i, j) == m.data[i + 1][j + 1]

matrix_create(rows, cols) ==
    LET r == IF rows > MATRIX_MAX_SIZE THEN MATRIX_MAX_SIZE ELSE rows
        c == IF cols > MATRIX_MAX_SIZE THEN MATRIX_MAX_SIZE ELSE cols
        E(i, j) == 0
    IN  MkMatrix(r, c, E)

\* the cells that matrix_create(rows, cols) writes: its loops run to the
\* clamped sizes
matrix_create_writes(rows, cols) ==
    With(matrix_create(rows, cols), LAMBDA m :
         {<<i, j>> : i \in 0..(m.rows - 1), j \in 0..(m.cols - 1)})

\* the value returned for size <= MATRIX_MAX_SIZE; see matrix_identity_writes
\* for the cells written when size is larger
matrix_identity(size) ==
    LET m == matrix_create(size, size)
        E(i, j) == IF i = j /\ i < size THEN F(1, 1) ELSE At(m, i, j)
    IN  MkMatrix(m.rows, m.cols, E)

\* the cells that matrix_identity(size) writes: those of matrix_create, then
\* data[i][i] for every i < size, the size as requested
matrix_identity_writes(size) ==
    matrix_create_writes(size, size) \cup {<<i, i>> : i \in 0..(size - 1)}

\* the shapes that matrix_identity(size) can return: the clamped one, or, once
\* a write has left the store, whatever the overwritten memory yields
matrix_identity_shapes(size) ==
    With(matrix_identity(size), LAMBDA m :
         IF \A w \in matrix_identity_writes(size) :
                w[1] < MATRIX_MAX_SIZE /\ w[2] < MATRIX_MAX_SIZE
         THEN {<<m.rows, m.cols>>}
         ELSE {<<m.rows, m.cols>>, <<0, 0>>, <<UInt8Max, UInt8Max>>})

matrix_set(m, row, col, value) ==
    IF row >= m.rows \/ col >= m.cols THEN m
    ELSE [m EXCEPT !.data[row + 1][col + 1] = value]

matrix_get(m, row, col) == At(m, row, col)

\* alias names the operand, if any, that is the same object as the result:
\* the result is overwritten by matrix_create before the operands are read
matrix_add(a, b, alias) ==
    LET created == matrix_create(a.rows, a.cols)
        a1 == IF alias = "a" THEN created ELSE a
        b1 == IF alias = "b" THEN created ELSE b
        E(i, j) == At(a1, i, j) + At(b1, i, j)
    IN  MkMatrix(created.rows, created.cols, E)

matrix_subtract(a, b) ==
    LET E(i, j) == At(a, i, j) - At(b, i, j)
    IN  MkMatrix(a.rows, a.cols, E)

RECURSIVE DotSum(_, _, _, _, _)
DotSum(a, b, i, j, k) ==
    IF k = 0 THEN 0
    ELSE DotSum(a, b, i, j, k - 1) + FMul(At(a, i, k - 1), At(b, k - 1, j))

matrix_multiply(a, b) ==
    LET E(i, j) == DotSum(a, b, i, j, a.cols)
    IN  MkMatrix(a.rows, b.cols, E)

matrix_scale(m, scalar) ==
    LET E(i, j) == FMul(At(m, i, j), scalar)
    IN  MkMatrix(m.rows, m.cols, E)

matrix_transpose(m) ==
    LET E(i, j) == At(m, j, i)
    IN  MkMatrix(m.cols, m.rows, E)

matrix_zero(m) ==
    LET E(i, j) == 0
    IN  MkMatrix(m.rows, m.cols, E)

matrix_diagonal(m, value) ==
    LET E(i, j) == IF i = j THEN value ELSE 0
    IN  MkMatrix(m.rows, m.cols, E)

\* a diagonal fill that skips matrix_zero: the cells off the diagonal are kept
matrix_diagonal_vector_keeping_rest(m, values, size) ==
    LET md  == IF m.rows < m.cols THEN m.rows ELSE m.cols
        lim == IF size < md THEN size ELSE md
        E(i, j) == IF i = j /\ i < lim THEN values[i + 1] ELSE At(m, i, j)
    IN  MkMatrix(m.rows, m.cols, E)

matrix_diagonal_vector(m, values, size) ==
    LET md  == IF m.rows < m.cols THEN m.rows ELSE m.cols
        lim == IF size < md THEN size ELSE md
        E(i, j) == IF i = j /\ i < lim THEN values[i + 1] ELSE 0
    IN  MkMatrix(m.rows, m.cols, E)

\* --- matrix_inverse: Gauss-Jordan on the augmented matrix [A | I]; the filter
\* inverts the 1x1, 3x3 and 6x6 innovation covariances, whose augmented
\* matrices fit the store

Augmented(m) ==
    LET n == m.rows
        E(i, j) == IF j < n THEN At(m, i, j)
                   ELSE IF j = i + n THEN F(1, 1) ELSE 0
    IN  MkMatrix(n, 2 * n, E)

\* no search: the pivot is the diagonal entry, whatever its size
PivotRow_without_search(aug, i, j, best) == best

\* the row j in i..n-1 with the largest |aug[j][i]|, the first one on ties
RECURSIVE PivotRow(_, _, _, _)
PivotRow(aug, i, j, best) ==
    IF j >= aug.rows THEN best
    ELSE PivotRow(aug, i, j + 1,
                  IF Abs(At(aug, j, i)) > Abs(At(aug, best, i)) THEN j ELSE best)

SwapRows(aug, i, p) ==
    LET E(r, c) == IF r = i THEN At(aug, p, c)
                   ELSE IF r = p THEN At(aug, i, c) ELSE At(aug, r, c)
    IN  MkMatrix(aug.rows, aug.cols, E)

NormalizeRow(aug, i) ==
    LET pivot_val == At(aug, i, i)
        E(r, c) == IF r = i THEN FDiv(At(aug, r, c), pivot_val) ELSE At(aug, r, c)
    IN  MkMatrix(aug.rows, aug.cols, E)

\* rows are eliminated in order, each with the factor it holds at that time
Eliminate(aug, i) ==
    LET E(r, c) == IF r = i THEN At(aug, r, c)
                   ELSE At(aug, r, c) - FMul(At(aug, r, i), At(aug, i, c))
    IN  MkMatrix(aug.rows, aug.cols, E)

RECURSIVE GaussJordan(_, _)
GaussJordan(aug, i) ==
    IF i >= aug.rows THEN [ok |-> TRUE, aug |-> aug]
    ELSE LET pivot == PivotRow(aug, i, i + 1, i)
             max_val == Abs(At(aug, pivot, i))
         IN  IF BelowEps(max_val) THEN [ok |-> FALSE, aug |-> aug]
             ELSE GaussJordan(Eliminate(NormalizeRow(SwapRows(aug, i, pivot), i), i),
                              i + 1)

\* [ok, m]: m is the inverse when ok; the result object is not written otherwise
matrix_inverse(m) ==
    IF m.rows # m.cols THEN [ok |-> FALSE, m |-> m]
    ELSE With(GaussJordan(Augmented(m), 0), LAMBDA g :
              LET E(i, j) == At(g.aug, i, j + m.rows)
              IN  IF g.ok THEN [ok |-> TRUE, m |-> MkMatrix(m.rows, m.rows, E)]
                  ELSE [ok |-> FALSE, m |-> m])

\* ------------------------------------------------------------ quaternion.c

vector3f_create(x, y, z) == [x |-> x, y |-> y, z |-> z]

vector3f_zero == vector3f_create(0, 0, 0)

vector3f_subtract(v1, v2) == vector3f_create(v1.x - v2.x, v1.y - v2.y, v1.z - v2.z)

quaternion_create(w, x, y, z) == [w |-> w, x |-> x, y |-> y, z |-> z]

quaternion_identity == quaternion_create(F(1, 1), 0, 0, 0)

quaternion_magnitude(q) ==
    FSqrt(FMul(q.w, q.w) + FMul(q.x, q.x) + FMul(q.y, q.y) + FMul(q.z, q.z))

quaternion_normalize(q) ==
    With(quaternion_magnitude(q), LAMBDA magnitude :
    IF BelowEps(magnitude) THEN quaternion_identity
    ELSE With(FDiv(F(1, 1), magnitude), LAMBDA inv_magnitude :
         quaternion_create(FMul(q.w, inv_magnitude), FMul(q.x, inv_magnitude),
                           FMul(q.y, inv_magnitude), FMul(q.z, inv_magnitude))))

quaternion_multiply(q1, q2) ==
    quaternion_create(
        FMul(q1.w, q2.w) - FMul(q1.x, q2.x) - FMul(q1.y, q2.y) - FMul(q1.z, q2.z),
        FMul(q1.w, q2.x) + FMul(q1.x, q2.w) + FMul(q1.y, q2.z) - FMul(q1.z, q2.y),
        FMul(q1.w, q2.y) - FMul(q1.x, q2.z) + FMul(q1.y, q2.w) + FMul(q1.z, q2.x),
        FMul(q1.w, q2.z) + FMul(q1.x, q2.y) - FMul(q1.y, q2.x) + FMul(q1.z, q2.w))

quaternion_conjugate(q) == quaternion_create(q.w, -q.x, -q.y, -q.z)

\* a rotation by the direction of q only: q is normalized first
quaternion_rotate_vector_normalizing(q, v) ==
    With(quaternion_normalize(q), LAMBDA n :
         With(quaternion_multiply(quaternion_multiply(n, quaternion_create(0, v.x, v.y, v.z)),
                                  quaternion_conjugate(n)), LAMBDA p :
              vector3f_create(p.x, p.y, p.z)))

quaternion_rotate_vector(q, v) ==
    LET qw2 == FMul(q.w, q.w)
        qx2 == FMul(q.x, q.x)
        qy2 == FMul(q.y, q.y)
        qz2 == FMul(q.z, q.z)
        qwx == FMul(q.w, q.x)
        qwy == FMul(q.w, q.y)
        qwz == FMul(q.w, q.z)
        qxy == FMul(q.x, q.y)
        qxz == FMul(q.x, q.z)
        qyz == FMul(q.y, q.z)
        m11 == qw2 + qx2 - qy2 - qz2
        m12 == 2 * (qxy - qwz)
        m13 == 2 * (qxz + qwy)
        m21 == 2 * (qxy + qwz)
        m22 == qw2 - qx2 + qy2 - qz2
        m23 == 2 * (qyz - qwx)
        m31 == 2 * (qxz - qwy)
        m32 == 2 * (qyz + qwx)
        m33 == qw2 - qx2 - qy2 + qz2
    IN  vector3f_create(FMul(m11, v.x) + FMul(m12, v.y) + FMul(m13, v.z),
                        FMul(m21, v.x) + FMul(m22, v.y) + FMul(m23, v.z),
                        FMul(m31, v.x) + FMul(m32, v.y) + FMul(m33, v.z))

\* R(q)' * v, the NED-to-body rotation that ekf_update_mag calls
quaternion_rotate_vector_inverse(q, v) ==
    quaternion_rotate_vector(quaternion_conjugate(q), v)

quaternion_derivative(q, omega) ==
    With(quaternion_multiply(q, quaternion_create(0, omega.x, omega.y, omega.z)),
         LAMBDA q_dot :
         quaternion_create(FMul(q_dot.w, F(1, 2)), FMul(q_dot.x, F(1, 2)),
                           FMul(q_dot.y, F(1, 2)), FMul(q_dot.z, F(1, 2))))

\* ------------------------------------------------------------ ekf.h

EKF_STATE_DIM == 16
EKF_STATE_POS_X == 0
EKF_STATE_POS_Y == 1
EKF_STATE_POS_Z == 2
EKF_STATE_VEL_X == 3
EKF_STATE_VEL_Y == 4
EKF_STATE_VEL_Z == 5
EKF_STATE_QUAT_W == 6
EKF_STATE_QUAT_X == 7
EKF_STATE_QUAT_Y == 8
EKF_STATE_QUAT_Z == 9
EKF_STATE_GYRO_BIAS_X == 10
EKF_STATE_GYRO_BIAS_Y == 11
EKF_STATE_GYRO_BIAS_Z == 12
EKF_STATE_ACC_BIAS_X == 13
EKF_STATE_ACC_BIAS_Y == 14
EKF_STATE_ACC_BIAS_Z == 15

\* x[i] of the 16x1 state vector
X(e, i) == At(e.x, i, 0)

\* ------------------------------------------------------------ ekf_init.c

DefaultMagNed == vector3f_create(F(29, 100), -F(5, 100), F(42, 100))

\* every field is written; the previous contents of the object play no part
ekf_init ==
    [x |-> matrix_create(EKF_STATE_DIM, 1),
     P |-> matrix_diagonal(matrix_create(EKF_STATE_DIM, EKF_STATE_DIM), F(1, 1)),
     Q |-> matrix_diagonal(matrix_create(EKF_STATE_DIM, EKF_STATE_DIM), F(1, 100)),
     R_gps |-> matrix_diagonal_vector(matrix_create(6, 6),
                   <<F(5, 1), F(5, 1), F(10, 1), F(1, 2), F(1, 2), F(1, 1)>>, 6),
     R_baro |-> matrix_set(matrix_create(1, 1), 0, 0, F(1, 1)),
     R_mag |-> matrix_diagonal(matrix_create(3, 3), F(1, 10)),
     gravity |-> F(980665, 100000),
     earth_mag_ned |-> DefaultMagNed,
     initialized |-> FALSE]

InitialPDiag ==
    <<F(10, 1), F(10, 1), F(10, 1), F(1, 1), F(1, 1), F(1, 1),
      F(1, 10), F(1, 10), F(1, 10), F(1, 10),
      F(1, 100), F(1, 100), F(1, 100), F(1, 10), F(1, 10), F(1, 10)>>

\* an initial-state setter that stores the quaternion as given
ekf_set_initial_state_unnormalized(e, pos, vel, q) ==
    With(<<pos.x, pos.y, pos.z, vel.x, vel.y, vel.z,
           q.w, q.x, q.y, q.z, 0, 0, 0, 0, 0, 0>>, LAMBDA xs :
    LET E(i, j) == IF i < e.x.rows /\ j < e.x.cols THEN xs[i + 1] ELSE At(e.x, i, j)
    IN  [e EXCEPT !.x = MkMatrix(e.x.rows, e.x.cols, E),
                  !.P = matrix_diagonal_vector(e.P, InitialPDiag, EKF_STATE_DIM),
                  !.initialized = TRUE])

ekf_set_initial_state(e, pos, vel, q) ==
    With(quaternion_normalize(q), LAMBDA qn :
    With(<<pos.x, pos.y, pos.z, vel.x, vel.y, vel.z,
           qn.w, qn.x, qn.y, qn.z, 0, 0, 0, 0, 0, 0>>, LAMBDA xs :
    LET E(i, j) == IF i < e.x.rows /\ j < e.x.cols THEN xs[i + 1] ELSE At(e.x, i, j)
    IN  [e EXCEPT !.x = MkMatrix(e.x.rows, e.x.cols, E),
                  !.P = matrix_diagonal_vector(e.P, InitialPDiag, EKF_STATE_DIM),
                  !.initialized = TRUE]))

ekf_set_process_noise(e, pos_std, vel_std, att_std, gyro_bias_std, acc_bias_std) ==
    LET var(i) == IF i <= EKF_STATE_POS_Z THEN FMul(pos_std, pos_std)
                  ELSE IF i <= EKF_STATE_VEL_Z THEN FMul(vel_std, vel_std)
                  ELSE IF i <= EKF_STATE_QUAT_Z THEN FMul(att_std, att_std)
                  ELSE IF i <= EKF_STATE_GYRO_BIAS_Z
                       THEN FMul(gyro_bias_std, gyro_bias_std)
                  ELSE FMul(acc_bias_std, acc_bias_std)
        E(i, j) == IF i = j THEN var(i) ELSE 0
    IN  [e EXCEPT !.Q = MkMatrix(e.Q.rows, e.Q.cols, E)]

ekf_set_gps_noise(e, pos_std, vel_std) ==
    LET E(i, j) == IF i # j THEN 0
                   ELSE IF i < 3 THEN FMul(pos_std, pos_std)
                   ELSE FMul(vel_std, vel_std)
    IN  [e EXCEPT !.R_gps = MkMatrix(e.R_gps.rows, e.R_gps.cols, E)]

ekf_set_baro_noise(e, baro_std) ==
    [e EXCEPT !.R_baro = matrix_set(e.R_baro, 0, 0, FMul(baro_std, baro_std))]

ekf_set_mag_noise(e, mag_std) ==
    LET E(i, j) == IF i = j THEN FMul(mag_std, mag_std) ELSE 0
    IN  [e EXCEPT !.R_mag = MkMatrix(e.R_mag.rows, e.R_mag.cols, E)]

ekf_set_earth_magnetic_field(e, mag_ned) == [e EXCEPT !.earth_mag_ned = mag_ned]

ekf_get_position(e) ==
    IF ~e.initialized THEN vector3f_zero
    ELSE vector3f_create(X(e, EKF_STATE_POS_X), X(e, EKF_STATE_POS_Y),
                         X(e, EKF_STATE_POS_Z))

ekf_get_velocity(e) ==
    IF ~e.initialized THEN vector3f_zero
    ELSE vector3f_create(X(e, EKF_STATE_VEL_X), X(e, EKF_STATE_VEL_Y),
                         X(e, EKF_STATE_VEL_Z))

ekf_get_attitude(e) ==
    IF ~e.initialized THEN quaternion_identity
    ELSE quaternion_normalize(
             quaternion_create(X(e, EKF_STATE_QUAT_W), X(e, EKF_STATE_QUAT_X),
                               X(e, EKF_STATE_QUAT_Y), X(e, EKF_STATE_QUAT_Z)))

\* [ret, angles]: on an uninitialized filter the function returns false and
\* writes nothing, so the caller's three floats keep their content; the angles
\* are recorded by the attitude that quaternion_to_euler converts
ekf_get_euler(e, angles) ==
    IF ~e.initialized THEN [ret |-> FALSE, angles |-> angles]
    ELSE With(ekf_get_attitude(e), LAMBDA q :
              [ret |-> TRUE, angles |-> <<q.w, q.x, q.y, q.z>>])

ekf_get_gyro_bias(e) ==
    IF ~e.initialized THEN vector3f_zero
    ELSE vector3f_create(X(e, EKF_STATE_GYRO_BIAS_X), X(e, EKF_STATE_GYRO_BIAS_Y),
                         X(e, EKF_STATE_GYRO_BIAS_Z))

ekf_get_accel_bias(e) ==
    IF ~e.initialized THEN vector3f_zero
    ELSE vector3f_create(X(e, EKF_STATE_ACC_BIAS_X), X(e, EKF_STATE_ACC_BIAS_Y),
                         X(e, EKF_STATE_ACC_BIAS_Z))

ResetPDiag ==
    <<F(100, 1), F(100, 1), F(100, 1), F(10, 1), F(10, 1), F(10, 1),
      F(1, 1), F(1, 1), F(1, 1), F(1, 1),
      F(1, 100), F(1, 100), F(1, 100), F(1, 10), F(1, 10), F(1, 10)>>

\* a reset that restores the estimate but forgets to clear the flag
ekf_reset_keeping_flag(e) ==
    [e EXCEPT !.x = matrix_set(matrix_zero(e.x), EKF_STATE_QUAT_W, 0, F(1, 1)),
              !.P = matrix_diagonal_vector(e.P, ResetPDiag, EKF_STATE_DIM)]

ekf_reset(e) ==
    [e EXCEPT !.x = matrix_set(matrix_zero(e.x), EKF_STATE_QUAT_W, 0, F(1, 1)),
              !.P = matrix_diagonal_vector(e.P, ResetPDiag, EKF_STATE_DIM),
              !.initialized = FALSE]

ekf_initialize_default_magnetic_field(e) == [e EXCEPT !.earth_mag_ned = DefaultMagNed]

\* ------------------------------------------------------------ ekf_predict.c

ekf_compute_jacobian(e, dt) ==
    With(FSqrt(FMul(X(e, EKF_STATE_QUAT_W), X(e, EKF_STATE_QUAT_W))
               + FMul(X(e, EKF_STATE_QUAT_X), X(e, EKF_STATE_QUAT_X))
               + FMul(X(e, EKF_STATE_QUAT_Y), X(e, EKF_STATE_QUAT_Y))
               + FMul(X(e, EKF_STATE_QUAT_Z), X(e, EKF_STATE_QUAT_Z))),
    LAMBDA qnorm :
    With(IF BelowEps(qnorm) THEN quaternion_create(F(1, 1), 0, 0, 0)
         ELSE quaternion_create(FDiv(X(e, EKF_STATE_QUAT_W), qnorm),
                                FDiv(X(e, EKF_STATE_QUAT_X), qnorm),
                                FDiv(X(e, EKF_STATE_QUAT_Y), qnorm),
                                FDiv(X(e, EKF_STATE_QUAT_Z), qnorm)),
    LAMBDA q :
    With(matrix_identity(EKF_STATE_DIM), LAMBDA I :
    LET qw == q.w
        qx == q.x
        qy == q.y
        qz == q.z
        mh(v) == FMul(FMul(-F(1, 2), v), dt)
        ph(v) == FMul(FMul(F(1, 2), v), dt)
        R11 == F(1, 1) - 2 * (FMul(qy, qy) + FMul(qz, qz))
        R12 == 2 * (FMul(qx, qy) - FMul(qw, qz))
        R13 == 2 * (FMul(qx, qz) + FMul(qw, qy))
        R21 == 2 * (FMul(qx, qy) + FMul(qw, qz))
        R22 == F(1, 1) - 2 * (FMul(qx, qx) + FMul(qz, qz))
        R23 == 2 * (FMul(qy, qz) - FMul(qw, qx))
        R31 == 2 * (FMul(qx, qz) - FMul(qw, qy))
        R32 == 2 * (FMul(qy, qz) + FMul(qw, qx))
        R33 == F(1, 1) - 2 * (FMul(qx, qx) + FMul(qy, qy))
        qb == <<<<mh(qx), mh(qy), mh(qz)>>,
                <<ph(qw), mh(qz), ph(qy)>>,
                <<ph(qz), ph(qw), mh(qx)>>,
                <<mh(qy), ph(qx), ph(qw)>>>>
        vb == <<<<FMul(-R11, dt), FMul(-R12, dt), FMul(-R13, dt)>>,
                <<FMul(-R21, dt), FMul(-R22, dt), FMul(-R23, dt)>>,
                <<FMul(-R31, dt), FMul(-R32, dt), FMul(-R33, dt)>>>>
    IN  With(<<qb, vb>>, LAMBDA blocks :
        LET E(i, j) ==
            IF i <= EKF_STATE_POS_Z /\ j = i + EKF_STATE_VEL_X THEN dt
            ELSE IF i >= EKF_STATE_QUAT_W /\ i <= EKF_STATE_QUAT_Z
                    /\ j >= EKF_STATE_GYRO_BIAS_X /\ j <= EKF_STATE_GYRO_BIAS_Z
                 THEN blocks[1][i - EKF_STATE_QUAT_W + 1][j - EKF_STATE_GYRO_BIAS_X + 1]
            ELSE IF i >= EKF_STATE_VEL_X /\ i <= EKF_STATE_VEL_Z
                    /\ j >= EKF_STATE_ACC_BIAS_X /\ j <= EKF_STATE_ACC_BIAS_Z
                 THEN blocks[2][i - EKF_STATE_VEL_X + 1][j - EKF_STATE_ACC_BIAS_X + 1]
            ELSE At(I, i, j)
        IN  MkMatrix(I.rows, I.cols, E)))))

\* a strapdown step that rotates the acceleration with the attitude it started from
PropagateState_prior_attitude(e, gyro, accel, dt) ==
    With(quaternion_normalize(
             quaternion_create(X(e, EKF_STATE_QUAT_W), X(e, EKF_STATE_QUAT_X),
                               X(e, EKF_STATE_QUAT_Y), X(e, EKF_STATE_QUAT_Z))),
    LAMBDA q0 :
    With(vector3f_create(gyro.x - X(e, EKF_STATE_GYRO_BIAS_X),
                         gyro.y - X(e, EKF_STATE_GYRO_BIAS_Y),
                         gyro.z - X(e, EKF_STATE_GYRO_BIAS_Z)),
    LAMBDA gyro_corrected :
    With(vector3f_create(accel.x - X(e, EKF_STATE_ACC_BIAS_X),
                         accel.y - X(e, EKF_STATE_ACC_BIAS_Y),
                         accel.z - X(e, EKF_STATE_ACC_BIAS_Z)),
    LAMBDA accel_corrected :
    With(quaternion_derivative(q0, gyro_corrected), LAMBDA q_dot :
    With(quaternion_normalize(
             quaternion_create(q0.w + FMul(q_dot.w, dt), q0.x + FMul(q_dot.x, dt),
                               q0.y + FMul(q_dot.y, dt), q0.z + FMul(q_dot.z, dt))),
    LAMBDA q :
    With(vector3f_subtract(quaternion_rotate_vector(q0, accel_corrected),
                           vector3f_create(0, 0, e.gravity)),
    LAMBDA accel_ned :
    With(X(e, EKF_STATE_VEL_X) + FMul(accel_ned.x, dt), LAMBDA vx :
    With(X(e, EKF_STATE_VEL_Y) + FMul(accel_ned.y, dt), LAMBDA vy :
    With(X(e, EKF_STATE_VEL_Z) + FMul(accel_ned.z, dt), LAMBDA vz :
    With(<<X(e, EKF_STATE_POS_X) + FMul(vx, dt),
           X(e, EKF_STATE_POS_Y) + FMul(vy, dt),
           X(e, EKF_STATE_POS_Z) + FMul(vz, dt),
           vx, vy, vz, q.w, q.x, q.y, q.z>>,
    LAMBDA xs :
    LET E(i, j) == IF i <= EKF_STATE_QUAT_Z THEN xs[i + 1] ELSE At(e.x, i, j)
    IN  MkMatrix(e.x.rows, e.x.cols, E)))))))))))

\* a strapdown step that rebuilds the state vector and leaves the biases at zero
PropagateState_clearing_biases(e, gyro, accel, dt) ==
    With(quaternion_normalize(
             quaternion_create(X(e, EKF_STATE_QUAT_W), X(e, EKF_STATE_QUAT_X),
                               X(e, EKF_STATE_QUAT_Y), X(e, EKF_STATE_QUAT_Z))),
    LAMBDA q0 :
    With(vector3f_create(gyro.x - X(e, EKF_STATE_GYRO_BIAS_X),
                         gyro.y - X(e, EKF_STATE_GYRO_BIAS_Y),
                         gyro.z - X(e, EKF_STATE_GYRO_BIAS_Z)),
    LAMBDA gyro_corrected :
    With(vector3f_create(accel.x - X(e, EKF_STATE_ACC_BIAS_X),
                         accel.y - X(e, EKF_STATE_ACC_BIAS_Y),
                         accel.z - X(e, EKF_STATE_ACC_BIAS_Z)),
    LAMBDA accel_corrected :
    With(quaternion_derivative(q0, gyro_corrected), LAMBDA q_dot :
    With(quaternion_normalize(
             quaternion_create(q0.w + FMul(q_dot.w, dt), q0.x + FMul(q_dot.x, dt),
                               q0.y + FMul(q_dot.y, dt), q0.z + FMul(q_dot.z, dt))),
    LAMBDA q :
    With(vector3f_subtract(quaternion_rotate_vector(q, accel_corrected),
                           vector3f_create(0, 0, e.gravity)),
    LAMBDA accel_ned :
    With(X(e, EKF_STATE_VEL_X) + FMul(accel_ned.x, dt), LAMBDA vx :
    With(X(e, EKF_STATE_VEL_Y) + FMul(accel_ned.y, dt), LAMBDA vy :
    With(X(e, EKF_STATE_VEL_Z) + FMul(accel_ned.z, dt), LAMBDA vz :
    With(<<X(e, EKF_STATE_POS_X) + FMul(vx, dt),
           X(e, EKF_STATE_POS_Y) + FMul(vy, dt),
           X(e, EKF_STATE_POS_Z) + FMul(vz, dt),
           vx, vy, vz, q.w, q.x, q.y, q.z>>,
    LAMBDA xs :
    LET E(i, j) == IF i <= EKF_STATE_QUAT_Z THEN xs[i + 1] ELSE 0
    IN  MkMatrix(e.x.rows, e.x.cols, E)))))))))))

\* a strapdown step that adds gravity to the rotated acceleration
PropagateState_adding_gravity(e, gyro, accel, dt) ==
    With(quaternion_normalize(
             quaternion_create(X(e, EKF_STATE_QUAT_W), X(e, EKF_STATE_QUAT_X),
                               X(e, EKF_STATE_QUAT_Y), X(e, EKF_STATE_QUAT_Z))),
    LAMBDA q0 :
    With(vector3f_create(gyro.x - X(e, EKF_STATE_GYRO_BIAS_X),
                         gyro.y - X(e, EKF_STATE_GYRO_BIAS_Y),
                         gyro.z - X(e, EKF_STATE_GYRO_BIAS_Z)),
    LAMBDA gyro_corrected :
    With(vector3f_create(accel.x - X(e, EKF_STATE_ACC_BIAS_X),
                         accel.y - X(e, EKF_STATE_ACC_BIAS_Y),
                         accel.z - X(e, EKF_STATE_ACC_BIAS_Z)),
    LAMBDA accel_corrected :
    With(quaternion_derivative(q0, gyro_corrected), LAMBDA q_dot :
    With(quaternion_normalize(
             quaternion_create(q0.w + FMul(q_dot.w, dt), q0.x + FMul(q_dot.x, dt),
                               q0.y + FMul(q_dot.y, dt), q0.z + FMul(q_dot.z, dt))),
    LAMBDA q :
    With(vector3f_subtract(quaternion_rotate_vector(q, accel_corrected),
                           vector3f_create(0, 0, -e.gravity)),
    LAMBDA accel_ned :
    With(X(e, EKF_STATE_VEL_X) + FMul(accel_ned.x, dt), LAMBDA vx :
    With(X(e, EKF_STATE_VEL_Y) + FMul(accel_ned.y, dt), LAMBDA vy :
    With(X(e, EKF_STATE_VEL_Z) + FMul(accel_ned.z, dt), LAMBDA vz :
    With(<<X(e, EKF_STATE_POS_X) + FMul(vx, dt),
           X(e, EKF_STATE_POS_Y) + FMul(vy, dt),
           X(e, EKF_STATE_POS_Z) + FMul(vz, dt),
           vx, vy, vz, q.w, q.x, q.y, q.z>>,
    LAMBDA xs :
    LET E(i, j) == IF i <= EKF_STATE_QUAT_Z THEN xs[i + 1] ELSE At(e.x, i, j)
    IN  MkMatrix(e.x.rows, e.x.cols, E)))))))))))

\* lines 124-221: the strapdown step on the state vector
PropagateState(e, gyro, accel, dt) ==
    With(quaternion_normalize(
             quaternion_create(X(e, EKF_STATE_QUAT_W), X(e, EKF_STATE_QUAT_X),
                               X(e, EKF_STATE_QUAT_Y), X(e, EKF_STATE_QUAT_Z))),
    LAMBDA q0 :
    With(vector3f_create(gyro.x - X(e, EKF_STATE_GYRO_BIAS_X),
                         gyro.y - X(e, EKF_STATE_GYRO_BIAS_Y),
                         gyro.z - X(e, EKF_STATE_GYRO_BIAS_Z)),
    LAMBDA gyro_corrected :
    With(vector3f_create(accel.x - X(e, EKF_STATE_ACC_BIAS_X),
                         accel.y - X(e, EKF_STATE_ACC_BIAS_Y),
                         accel.z - X(e, EKF_STATE_ACC_BIAS_Z)),
    LAMBDA accel_corrected :
    With(quaternion_derivative(q0, gyro_corrected), LAMBDA q_dot :
    With(quaternion_normalize(
             quaternion_create(q0.w + FMul(q_dot.w, dt), q0.x + FMul(q_dot.x, dt),
                               q0.y + FMul(q_dot.y, dt), q0.z + FMul(q_dot.z, dt))),
    LAMBDA q :
    With(vector3f_subtract(quaternion_rotate_vector(q, accel_corrected),
                           vector3f_create(0, 0, e.gravity)),
    LAMBDA accel_ned :
    With(X(e, EKF_STATE_VEL_X) + FMul(accel_ned.x, dt), LAMBDA vx :
    With(X(e, EKF_STATE_VEL_Y) + FMul(accel_ned.y, dt), LAMBDA vy :
    With(X(e, EKF_STATE_VEL_Z) + FMul(accel_ned.z, dt), LAMBDA vz :
    With(<<X(e, EKF_STATE_POS_X) + FMul(vx, dt),
           X(e, EKF_STATE_POS_Y) + FMul(vy, dt),
           X(e, EKF_STATE_POS_Z) + FMul(vz, dt),
           vx, vy, vz, q.w, q.x, q.y, q.z>>,
    LAMBDA xs :
    LET E(i, j) == IF i <= EKF_STATE_QUAT_Z THEN xs[i + 1] ELSE At(e.x, i, j)
    IN  MkMatrix(e.x.rows, e.x.cols, E)))))))))))

\* a covariance propagation that scales the process noise by dt squared
PropagateCovariance_quadratic(e, dt) ==
    With(ekf_compute_jacobian(e, dt), LAMBDA Fm :
    With(matrix_transpose(Fm), LAMBDA F_transpose :
    With(matrix_multiply(Fm, e.P), LAMBDA temp1 :
    With(matrix_multiply(temp1, F_transpose), LAMBDA temp2 :
    With(matrix_scale(e.Q, FMul(dt, dt)), LAMBDA scaled_Q :
    matrix_add(temp2, scaled_Q, "none"))))))

\* lines 225-241, on the filter whose state vector is already propagated
PropagateCovariance(e, dt) ==
    With(ekf_compute_jacobian(e, dt), LAMBDA Fm :
    With(matrix_transpose(Fm), LAMBDA F_transpose :
    With(matrix_multiply(Fm, e.P), LAMBDA temp1 :
    With(matrix_multiply(temp1, F_transpose), LAMBDA temp2 :
    With(matrix_scale(e.Q, dt), LAMBDA scaled_Q :
    matrix_add(temp2, scaled_Q, "none"))))))

\* a predict whose guard on the time step is dt < 0
ekf_predict_accepting_zero_dt(e, gyro, accel, dt) ==
    IF dt < 0 THEN [ret |-> FALSE, ekf |-> e]
    ELSE IF ~e.initialized THEN [ret |-> FALSE, ekf |-> e]
    ELSE With([e EXCEPT !.x = PropagateState(e, gyro, accel, dt)], LAMBDA e1 :
              [ret |-> TRUE, ekf |-> [e1 EXCEPT !.P = PropagateCovariance(e1, dt)]])

ekf_predict(e, gyro, accel, dt) ==
    IF dt <= 0 THEN [ret |-> FALSE, ekf |-> e]
    ELSE IF ~e.initialized THEN [ret |-> FALSE, ekf |-> e]
    ELSE With([e EXCEPT !.x = PropagateState(e, gyro, accel, dt)], LAMBDA e1 :
              [ret |-> TRUE, ekf |-> [e1 EXCEPT !.P = PropagateCovariance(e1, dt)]])

\* ------------------------------------------------------------ ekf_update.c

ekf_compute_gps_jacobian ==
    LET E(i, j) == IF i = j THEN F(1, 1) ELSE 0
    IN  MkMatrix(6, EKF_STATE_DIM, E)

ekf_compute_baro_jacobian ==
    matrix_set(matrix_zero(matrix_create(1, EKF_STATE_DIM)), 0, EKF_STATE_POS_Z, F(1, 1))

ekf_compute_mag_jacobian(e) ==
    LET qw == X(e, EKF_STATE_QUAT_W)
        qx == X(e, EKF_STATE_QUAT_X)
        qy == X(e, EKF_STATE_QUAT_Y)
        qz == X(e, EKF_STATE_QUAT_Z)
        mx == e.earth_mag_ned.x
        my == e.earth_mag_ned.y
        mz == e.earth_mag_ned.z
        h == <<<<2 * (-FMul(qz, my) + FMul(qy, mz)),
                 2 * (FMul(qy, my) + FMul(qz, mz)),
                 2 * (-FMul(2 * qy, mx) + FMul(qx, my) + FMul(qw, mz)),
                 2 * (-FMul(2 * qz, mx) - FMul(qw, my) + FMul(qx, mz))>>,
               <<2 * (FMul(qz, mx) - FMul(qx, mz)),
                 2 * (FMul(qy, mx) - FMul(2 * qx, my) - FMul(qw, mz)),
                 2 * (FMul(qx, mx) + FMul(qz, mz)),
                 2 * (FMul(qw, mx) - FMul(2 * qz, my) + FMul(qy, mz))>>,
               <<2 * (-FMul(qy, mx) + FMul(qx, my)),
                 2 * (FMul(qz, mx) + FMul(qw, my) - FMul(2 * qx, mz)),
                 2 * (-FMul(qw, mx) + FMul(qz, my) - FMul(2 * qy, mz)),
                 2 * (FMul(qx, mx) + FMul(qy, my))>>>>
        E(i, j) == IF j >= EKF_STATE_QUAT_W /\ j <= EKF_STATE_QUAT_Z
                   THEN h[i + 1][j - EKF_STATE_QUAT_W + 1] ELSE 0
    IN  MkMatrix(3, EKF_STATE_DIM, E)

NoMatrix == [rows |-> 0, cols |-> 0, data |-> <<>>]

\* [ok, K]: K is written only when the inversion of S succeeds
ekf_compute_kalman_gain(e, H, R) ==
    With(matrix_transpose(H), LAMBDA H_transpose :
    With(matrix_multiply(H, e.P), LAMBDA temp1 :
    With(matrix_multiply(temp1, H_transpose), LAMBDA temp2 :
    With(matrix_add(temp2, R, "none"), LAMBDA S :
    With(matrix_inverse(S), LAMBDA S_inv :
    IF ~S_inv.ok THEN [ok |-> FALSE, K |-> NoMatrix]
    ELSE With(matrix_multiply(e.P, H_transpose), LAMBDA temp3 :
              [ok |-> TRUE, K |-> matrix_multiply(temp3, S_inv.m)]))))))

\* lines 170-173: matrix_add(&ekf->x, &dx, &ekf->x), the result being operand a
StateCorrection(e, K, y) ==
    With(matrix_multiply(K, y), LAMBDA dx : matrix_add(e.x, dx, "a"))

\* lines 175-188
RenormalizeQuaternion(x) ==
    With(quaternion_normalize(
             quaternion_create(At(x, EKF_STATE_QUAT_W, 0), At(x, EKF_STATE_QUAT_X, 0),
                               At(x, EKF_STATE_QUAT_Y, 0), At(x, EKF_STATE_QUAT_Z, 0))),
    LAMBDA q :
    matrix_set(matrix_set(matrix_set(matrix_set(x,
        EKF_STATE_QUAT_W, 0, q.w), EKF_STATE_QUAT_X, 0, q.x),
        EKF_STATE_QUAT_Y, 0, q.y), EKF_STATE_QUAT_Z, 0, q.z))

\* lines 190-204
CovarianceCorrection(e, K, H) ==
    With(matrix_identity(EKF_STATE_DIM), LAMBDA I :
    With(matrix_multiply(K, H), LAMBDA KH :
    With(matrix_subtract(I, KH), LAMBDA I_KH :
    With(matrix_multiply(I_KH, e.P), LAMBDA P1 :
    With(matrix_transpose(P1), LAMBDA P_transpose :
    With(matrix_add(P1, P_transpose, "none"), LAMBDA P_new :
    matrix_scale(P_new, F(1, 2))))))))

ekf_update_state_covariance(e, K, y, H) ==
    [e EXCEPT !.x = RenormalizeQuaternion(StateCorrection(e, K, y)),
              !.P = CovarianceCorrection(e, K, H)]

\* a tail that corrects with P * H' before it looks at the gain's result
GainAndCorrect_unchecked(e, H, R, y) ==
    With(ekf_compute_kalman_gain(e, H, R), LAMBDA g :
    With(IF g.ok THEN g.K ELSE matrix_multiply(e.P, matrix_transpose(H)), LAMBDA K :
    [ret |-> g.ok, ekf |-> ekf_update_state_covariance(e, K, y, H),
     inv |-> IF g.ok THEN "ok" ELSE "singular", K |-> K, y |-> y]))

\* the tail shared by the three updates: gain, then correction.
\* [ret, ekf, inv, K, y]: inv tells how the inversion of S ended
GainAndCorrect(e, H, R, y) ==
    With(ekf_compute_kalman_gain(e, H, R), LAMBDA g :
    IF ~g.ok THEN [ret |-> FALSE, ekf |-> e, inv |-> "singular", K |-> NoMatrix, y |-> y]
    ELSE [ret |-> TRUE, ekf |-> ekf_update_state_covariance(e, g.K, y, H),
          inv |-> "ok", K |-> g.K, y |-> y])

NotInitialized(e) ==
    [ret |-> FALSE, ekf |-> e, inv |-> "none", K |-> NoMatrix, y |-> NoMatrix]

ColumnVector(xs) ==
    LET E(i, j) == xs[i + 1]
    IN  MkMatrix(Len(xs), 1, E)

ekf_update_gps(e, pos, vel) ==
    IF ~e.initialized THEN NotInitialized(e)
    ELSE With(ekf_compute_gps_jacobian, LAMBDA H :
         With(ekf_get_position(e), LAMBDA pos_pred :
         With(ekf_get_velocity(e), LAMBDA vel_pred :
         With(ColumnVector(<<pos.x, pos.y, pos.z, vel.x, vel.y, vel.z>>), LAMBDA z :
         With(ColumnVector(<<pos_pred.x, pos_pred.y, pos_pred.z,
                             vel_pred.x, vel_pred.y, vel_pred.z>>), LAMBDA z_pred :
         With(matrix_subtract(z, z_pred), LAMBDA y :
         GainAndCorrect(e, H, e.R_gps, y)))))))

\* a barometer update without the guard on initialized
ekf_update_baro_unguarded(e, altitude) ==
    With(ekf_compute_baro_jacobian, LAMBDA H :
    With(ekf_get_position(e), LAMBDA pos_pred :
    With(ColumnVector(<<altitude>>), LAMBDA z :
    With(ColumnVector(<<pos_pred.z>>), LAMBDA z_pred :
    With(matrix_subtract(z, z_pred), LAMBDA y :
    GainAndCorrect(e, H, e.R_baro, y))))))

ekf_update_baro(e, altitude) ==
    IF ~e.initialized THEN NotInitialized(e)
    ELSE With(ekf_compute_baro_jacobian, LAMBDA H :
         With(ekf_get_position(e), LAMBDA pos_pred :
         With(ColumnVector(<<altitude>>), LAMBDA z :
         With(ColumnVector(<<pos_pred.z>>), LAMBDA z_pred :
         With(matrix_subtract(z, z_pred), LAMBDA y :
         GainAndCorrect(e, H, e.R_baro, y))))))

ekf_update_mag(e, mag) ==
    IF ~e.initialized THEN NotInitialized(e)
    ELSE With(ekf_compute_mag_jacobian(e), LAMBDA H :
         With(ekf_get_attitude(e), LAMBDA q :
         With(quaternion_rotate_vector_inverse(q, e.earth_mag_ned), LAMBDA mag_pred :
         With(ColumnVector(<<mag.x, mag.y, mag.z>>), LAMBDA z :
         With(ColumnVector(<<mag_pred.x, mag_pred.y, mag_pred.z>>), LAMBDA z_pred :
         With(matrix_subtract(z, z_pred), LAMBDA y :
         GainAndCorrect(e, H, e.R_mag, y)))))))

\* ------------------------------------------------------------ the filter object

VARIABLES
    ekf,        \* the EKF structure
    pre,        \* the EKF structure as it was when the last call was made
    last,       \* the last call: operation, return value and what it computed
    life,       \* the last successful call among ekf_init, set_initial_state, reset
    out,        \* what the last accessor returned, as a tuple
    mat,        \* the last constructor call made on the matrix library itself
    configured, \* a noise or reference-field setter has been called
    calls,      \* the number of calls made
    steps,      \* the number of predict and update calls among them
    since       \* what followed the last successful life-cycle call

vars == <<ekf, pre, last, life, out, mat, configured, calls, steps, since>>

UpdateOps == {"ekf_update_gps", "ekf_update_baro", "ekf_update_mag"}

LifeOps == {"ekf_init", "ekf_set_initial_state", "ekf_reset"}

StepOps == UpdateOps \cup {"ekf_predict"}

AccessorOps == {"ekf_get_position", "ekf_get_velocity", "ekf_get_attitude",
                "ekf_get_euler", "ekf_get_gyro_bias", "ekf_get_accel_bias"}

\* the record of a call that is no measurement update
Plain(op, ret, dt) ==
    [op |-> op, ret |-> ret, inv |-> "none", K |-> NoMatrix, y |-> NoMatrix,
     xraw |-> NoMatrix, dt |-> dt]

\* the record of a measurement update r made on the filter e; xraw is the state
\* vector as line 173 leaves it, before the quaternion is renormalized
Updated(op, e, r) ==
    [op |-> op, ret |-> r.ret, inv |-> r.inv, K |-> r.K, y |-> r.y,
     xraw |-> IF r.inv = "ok" THEN StateCorrection(e, r.K, r.y) ELSE NoMatrix,
     dt |-> 0]

\* the filter holds the origin: zero position and velocity, identity attitude
AtOrigin(e) ==
    /\ \A i \in EKF_STATE_POS_X..EKF_STATE_VEL_Z : X(e, i) = 0
    /\ X(e, EKF_STATE_QUAT_W) = F(1, 1)
    /\ \A i \in EKF_STATE_QUAT_X..EKF_STATE_QUAT_Z : X(e, i) = 0

\* since, after the call rec that left the filter e: whether the life-cycle
\* call left the origin, and the predict and update calls made after it
Since(e, rec) ==
    IF rec.op \in LifeOps /\ rec.ret THEN [origin |-> AtOrigin(e), ops |-> {}, n |-> 0]
    ELSE IF rec.op \in StepOps
         THEN [since EXCEPT !.ops = @ \cup {rec.op}, !.n = @ + 1]
    ELSE since

\* ------------------------------------------------------------ inputs

MaxCalls == 3
MaxSteps == 3
MaxAid == 5

MaxLifeCalls == 4

MaxStatic == 6
MaxConstructions == 1

Vec(x, y, z) == vector3f_create(F(x, 1), F(y, 1), F(z, 1))

InitialStates ==
    { [pos |-> Vec(0, 0, 0), vel |-> Vec(0, 0, 0), q |-> quaternion_identity],
      [pos |-> Vec(1, 2, 3), vel |-> vector3f_create(F(1, 2), 0, -F(1, 1)),
       q |-> quaternion_create(0, F(2, 1), 0, 0)],
      [pos |-> Vec(0, 0, -5), vel |-> Vec(0, 0, 0), q |-> quaternion_create(0, 0, 0, 0)] }

Gravity == F(980665, 100000)

Motion == [gyro |-> Vec(0, 0, 1), accel |-> vector3f_create(F(1, 1), 0, Gravity)]

StepTimes == {F(1, 2)}
BadStepTimes == {0, -F(1, 2)}

GpsFixes == { [pos |-> Vec(100, 50, -20), vel |-> Vec(0, 0, 0)] }

BaroAltitudes == { -F(15, 1) }

MagReadings == { vector3f_create(F(3, 10), 0, F(4, 10)) }

StaticStepTimes == {F(1, 2), F(1, 100)}

\* the measurement that the filter e predicts, so that the innovation is zero
PredictedGps(e) == [pos |-> ekf_get_position(e), vel |-> ekf_get_velocity(e)]
PredictedBaro(e) == ekf_get_position(e).z
PredictedMag(e) == quaternion_rotate_vector_inverse(ekf_get_attitude(e), e.earth_mag_ned)

\* ------------------------------------------------------------ operations

Call(e, rec, o) ==
    /\ ekf' = e
    /\ pre' = ekf
    /\ last' = rec
    /\ life' = IF rec.op \in LifeOps /\ rec.ret THEN rec.op ELSE life
    /\ out' = o
    /\ configured' = configured
    /\ calls' = calls + 1
    /\ steps' = IF rec.op \in StepOps THEN steps + 1 ELSE steps
    /\ since' = Since(e, rec)
    /\ mat' = mat

Configure(e, op) ==
    /\ ekf' = e
    /\ pre' = ekf
    /\ last' = Plain(op, TRUE, 0)
    /\ UNCHANGED <<life, out, mat, steps, since>>
    /\ configured' = TRUE
    /\ calls' = calls + 1

\* the record of a constructor call
Constructed(op, args, shape, writes) ==
    [op |-> op, args |-> args, rows |-> shape[1], cols |-> shape[2], writes |-> writes]

\* a constructor call leaves the filter object alone
Constructor(rec) ==
    /\ mat' = rec
    /\ calls' = calls + 1
    /\ UNCHANGED <<ekf, pre, last, life, out, configured, steps, since>>

MatrixCreate ==
    \E rows \in 0..UInt8Max : \E cols \in 0..UInt8Max :
        \E m \in {matrix_create(rows, cols)} :
            Constructor(Constructed("matrix_create", <<rows, cols>>, <<m.rows, m.cols>>,
                                    matrix_create_writes(rows, cols)))

MatrixIdentity ==
    \E size \in 0..UInt8Max : \E shape \in matrix_identity_shapes(size) :
        Constructor(Constructed("matrix_identity", <<size>>, shape,
                                matrix_identity_writes(size)))

EkfInit == Call(ekf_init, Plain("ekf_init", TRUE, 0), out)

SetInitialState ==
    \E s \in InitialStates :
        Call(ekf_set_initial_state(ekf, s.pos, s.vel, s.q),
             Plain("ekf_set_initial_state", TRUE, 0), out)

Reset == Call(ekf_reset(ekf), Plain("ekf_reset", TRUE, 0), out)

\* ekf == NULL: the life-cycle operations return false and touch nothing
NullCall == \E op \in LifeOps : Call(ekf, Plain(op, FALSE, 0), out)

SetProcessNoise ==
    Configure(ekf_set_process_noise(ekf, F(1, 10), F(1, 10), 0, 0, 0),
              "ekf_set_process_noise")

SetGpsNoise ==
    \E std \in {<<0, 0>>, <<F(1, 1), 0>>} :
        Configure(ekf_set_gps_noise(ekf, std[1], std[2]), "ekf_set_gps_noise")

SetBaroNoise == Configure(ekf_set_baro_noise(ekf, 0), "ekf_set_baro_noise")

SetMagNoise == Configure(ekf_set_mag_noise(ekf, 0), "ekf_set_mag_noise")

SetEarthMagneticField ==
    Configure(ekf_set_earth_magnetic_field(ekf, Vec(1, 0, 0)),
              "ekf_set_earth_magnetic_field")

PredictWith(dts) ==
    \E dt \in dts :
        \E r \in {ekf_predict(ekf, Motion.gyro, Motion.accel, dt)} :
            Call(r.ekf, Plain("ekf_predict", r.ret, dt), out)

UpdateGpsWith(fixes) ==
    \E z \in fixes :
        \E r \in {ekf_update_gps(ekf, z.pos, z.vel)} :
            Call(r.ekf, Updated("ekf_update_gps", ekf, r), out)

UpdateBaroWith(alts) ==
    \E z \in alts :
        \E r \in {ekf_update_baro(ekf, z)} :
            Call(r.ekf, Updated("ekf_update_baro", ekf, r), out)

UpdateMagWith(mags) ==
    \E z \in mags :
        \E r \in {ekf_update_mag(ekf, z)} :
            Call(r.ekf, Updated("ekf_update_mag", ekf, r), out)

\* the vehicle at rest and level: no rotation, and the accelerometer reads the
\* configured gravity on its z axis
PredictStaticWith(dts) ==
    \E dt \in dts :
        \E r \in {ekf_predict(ekf, vector3f_zero, vector3f_create(0, 0, ekf.gravity), dt)} :
            Call(r.ekf, Plain("ekf_predict", r.ret, dt), out)

Predict == PredictWith(StepTimes \cup BadStepTimes)
UpdateGps == UpdateGpsWith(GpsFixes \cup {PredictedGps(ekf)})
UpdateBaro == UpdateBaroWith(BaroAltitudes \cup {PredictedBaro(ekf)})
UpdateMag == UpdateMagWith(MagReadings \cup {PredictedMag(ekf)})

V3(v) == <<v.x, v.y, v.z>>

Accessor(op) ==
    IF op = "ekf_get_position" THEN V3(ekf_get_position(ekf))
    ELSE IF op = "ekf_get_euler" THEN ekf_get_euler(ekf, out).angles
    ELSE IF op = "ekf_get_velocity" THEN V3(ekf_get_velocity(ekf))
    ELSE IF op = "ekf_get_gyro_bias" THEN V3(ekf_get_gyro_bias(ekf))
    ELSE IF op = "ekf_get_accel_bias" THEN V3(ekf_get_accel_bias(ekf))
    ELSE With(ekf_get_attitude(ekf), LAMBDA q : <<q.w, q.x, q.y, q.z>>)

Get ==
    \E op \in AccessorOps :
        Call(ekf, Plain(op, op # "ekf_get_euler" \/ ekf_get_euler(ekf, out).ret, 0),
             Accessor(op))

\* ------------------------------------------------------------ specifications

Init ==
    /\ ekf = ekf_init
    /\ pre = ekf_init
    /\ last = Plain("ekf_init", TRUE, 0)
    /\ life = "ekf_init"
    /\ out = <<>>
    /\ configured = FALSE
    /\ calls = 0
    /\ steps = 0
    /\ since = [origin |-> FALSE, ops |-> {}, n |-> 0]
    /\ mat = Constructed("none", <<>>, <<0, 0>>, {})

\* every public operation, in any order, MaxCalls calls in all
MayCall == calls < MaxCalls

Next ==
    \/ MayCall /\ EkfInit
    \/ MayCall /\ SetInitialState
    \/ MayCall /\ Reset
    \/ MayCall /\ NullCall
    \/ MayCall /\ SetProcessNoise
    \/ MayCall /\ SetGpsNoise
    \/ MayCall /\ SetBaroNoise
    \/ MayCall /\ SetMagNoise
    \/ MayCall /\ SetEarthMagneticField
    \/ MayCall /\ Predict
    \/ MayCall /\ UpdateGps
    \/ MayCall /\ UpdateBaro
    \/ MayCall /\ UpdateMag
    \/ MayCall /\ Get

Spec == Init /\ [][Next]_vars

\* a mission: the noise is configured at most once before the initial state is
\* set, then MaxSteps inertial steps and aiding updates follow
MayConfigure == ~configured /\ ~ekf.initialized

MayStep == ekf.initialized /\ steps < MaxSteps

NavStart == ~ekf.initialized /\ SetInitialState

NextNav ==
    \/ MayConfigure /\ SetProcessNoise
    \/ MayConfigure /\ SetGpsNoise
    \/ MayConfigure /\ SetBaroNoise
    \/ MayConfigure /\ SetMagNoise
    \/ NavStart
    \/ MayStep /\ PredictWith(StepTimes)
    \/ MayStep /\ UpdateGpsWith(GpsFixes)
    \/ MayStep /\ UpdateBaroWith(BaroAltitudes)
    \/ MayStep /\ UpdateMagWith(MagReadings)

SpecNav == Init /\ [][NextNav]_vars

\* aiding only: after the initial state is set, the same two measurements are
\* applied again and again, MaxAid times in all, with no predict in between
MayAid == ekf.initialized /\ steps < MaxAid

NextAid ==
    \/ NavStart
    \/ MayAid /\ UpdateGpsWith(GpsFixes)
    \/ MayAid /\ UpdateBaroWith(BaroAltitudes)

SpecAid == Init /\ [][NextAid]_vars

\* restarts: the filter is started, run and then reset or started again, in any
\* order, MaxLifeCalls calls in all
MayLive == calls < MaxLifeCalls

MayRun == MayLive /\ ekf.initialized

NextLife ==
    \/ MayLive /\ SetInitialState
    \/ MayLive /\ Reset
    \/ MayRun /\ PredictWith(StepTimes)
    \/ MayRun /\ UpdateGpsWith(GpsFixes)

SpecLife == Init /\ [][NextLife]_vars

\* standing still: after the initial state is set, MaxStatic predicts with the
\* readings of a vehicle at rest
MayStand == ekf.initialized /\ steps < MaxStatic

NextStatic ==
    \/ NavStart
    \/ MayStand /\ PredictStaticWith(StaticStepTimes)

SpecStatic == Init /\ [][NextStatic]_vars

\* the matrix constructors, called with every size a uint8_t can hold
MayConstruct == calls < MaxConstructions

NextMatrix ==
    \/ MayConstruct /\ MatrixCreate
    \/ MayConstruct /\ MatrixIdentity

SpecMatrix == Init /\ [][NextMatrix]_vars

\* ------------------------------------------------------------ properties

StateIndices == 0..(EKF_STATE_DIM - 1)

IsZeroMatrix(m) ==
    \A i \in 0..(m.rows - 1) : \A j \in 0..(m.cols - 1) : At(m, i, j) = 0

\* the last call was a measurement update that returned true
SuccessfulUpdate == last.op \in UpdateOps /\ last.ret

\* C1: on every successful update the state vector, before the quaternion is
\* renormalized, is the prior state plus K * y, component by component
C1_StateIsPriorPlusCorrection ==
    SuccessfulUpdate =>
        \A i \in StateIndices :
            At(last.xraw, i, 0)
                = At(pre.x, i, 0) + At(matrix_multiply(last.K, last.y), i, 0)

\* C2: a successful update with innovation y = 0 changes no component of the
\* state vector by more than the tolerance (1e-6 is below the grid: one grid
\* spacing is allowed for the rounding of the renormalization)
C2_ZeroInnovationKeepsState ==
    (SuccessfulUpdate /\ IsZeroMatrix(last.y)) =>
        \A i \in StateIndices : Abs(X(ekf, i) - X(pre, i)) <= 1

\* C3: when the inversion of S fails, the update returns false and x and P are
\* what they were before the call
C3_FailedInversionLeavesState ==
    last.inv = "singular" => ~last.ret /\ ekf.x = pre.x /\ ekf.P = pre.P

\* a barometer update on an initialized filter whose S is singular
C3_SingularReached ==
    last.op = "ekf_update_baro" /\ last.inv = "singular" /\ pre.initialized

\* C4: predict returns false when dt <= 0 or the filter is not initialized, and
\* then leaves every field of the filter as it was
C4_PredictRejects ==
    (last.op = "ekf_predict" /\ (last.dt <= 0 \/ ~pre.initialized)) =>
        ~last.ret /\ ekf = pre

\* predict called with dt = 0 on an initialized filter
C4_ZeroStepOnInitialized ==
    last.op = "ekf_predict" /\ last.dt = 0 /\ pre.initialized

\* C5: on a filter that is not initialized the three updates return false and
\* leave x, P, the noise matrices and the reference field as they were
C5_UpdatesRejectUninitialized ==
    (last.op \in UpdateOps /\ ~pre.initialized) => ~last.ret /\ ekf = pre

\* a barometer update called on a filter that was reset and not started again
C5_UpdateAfterReset ==
    last.op = "ekf_update_baro" /\ life = "ekf_reset" /\ ~pre.initialized

\* C6: initialized is true exactly when the last successful life-cycle call was
\* ekf_set_initial_state, and no other operation changes the flag
C6_InitializedTracksLifeCycle ==
    /\ ekf.initialized = (life = "ekf_set_initial_state")
    /\ (last.op \notin LifeOps => ekf.initialized = pre.initialized)

\* a reset of an initialized filter
C6_ResetOfInitialized ==
    last.op = "ekf_reset" /\ pre.initialized /\ ~ekf.initialized

\* the norm of the quaternion stored in x[6..9]
StoredQuaternionNorm(e) ==
    quaternion_magnitude(
        quaternion_create(X(e, EKF_STATE_QUAT_W), X(e, EKF_STATE_QUAT_X),
                          X(e, EKF_STATE_QUAT_Y), X(e, EKF_STATE_QUAT_Z)))

\* C7: after every public operation, ekf_init included, the stored quaternion
\* has unit norm, up to the rounding of the normalization
C7_UnitQuaternion == Abs(StoredQuaternionNorm(ekf) - F(1, 1)) <= 2

\* the sum of |m[i][j]| over the first k columns of row i
RECURSIVE AbsRowSum(_, _, _)
AbsRowSum(m, i, k) ==
    IF k = 0 THEN 0 ELSE AbsRowSum(m, i, k - 1) + Abs(At(m, i, k - 1))

\* the infinity norm: the largest absolute row sum
InfNorm(m) ==
    With({AbsRowSum(m, i, m.cols) : i \in 0..(m.rows - 1)}, LAMBDA sums :
         CHOOSE v \in sums : \A w \in sums : w <= v)

C9_DiagonalNonNegative ==
    life # "ekf_init" => \A i \in StateIndices : At(ekf.P, i, i) >= 0

\* C10: after set_initial_state at the origin with the default noise, five
\* ekf_update_baro(-15.0) calls and nothing else leave the Down position
\* within 1 m of -15.0
C10_BaroConverges ==
    (since.origin /\ ~configured /\ since.ops = {"ekf_update_baro"} /\ since.n = 5) =>
        Abs(X(ekf, EKF_STATE_POS_Z) + F(15, 1)) <= F(1, 1)

\* the filter e has covariance off the diagonal and a non-zero bias estimate
HasHistory(e) ==
    /\ \E i \in StateIndices : \E j \in StateIndices : i # j /\ At(e.P, i, j) # 0
    /\ \E i \in EKF_STATE_GYRO_BIAS_X..EKF_STATE_ACC_BIAS_Z : X(e, i) # 0

\* m is the square matrix with the diagonal d and zero elsewhere
IsDiagonalOf(m, d) ==
    /\ m.rows = Len(d) /\ m.cols = Len(d)
    /\ \A i \in 0..(Len(d) - 1) : \A j \in 0..(Len(d) - 1) :
           At(m, i, j) = IF i = j THEN d[i + 1] ELSE 0

\* C11: reset returns true and leaves initialized = false, the state zero except
\* q_w = 1, and P the diagonal (100,100,100, 10,10,10, 1,1,1,1, 0.01,0.01,0.01,
\* 0.1,0.1,0.1) with zero off-diagonal entries
C11_ResetRestoresDefaults ==
    last.op = "ekf_reset" =>
        /\ last.ret
        /\ ~ekf.initialized
        /\ \A i \in StateIndices :
               X(ekf, i) = IF i = EKF_STATE_QUAT_W THEN F(1, 1) ELSE 0
        /\ IsDiagonalOf(ekf.P,
               <<F(100, 1), F(100, 1), F(100, 1), F(10, 1), F(10, 1), F(10, 1),
                 F(1, 1), F(1, 1), F(1, 1), F(1, 1),
                 F(1, 100), F(1, 100), F(1, 100), F(1, 10), F(1, 10), F(1, 10)>>)

\* a reset of a running filter that has correlated covariance and biases
C11_ResetOfRunningFilter == last.op = "ekf_reset" /\ pre.initialized /\ HasHistory(pre)

\* C12: set_initial_state writes pos and vel, stores the normalized quaternion
\* (identity for a quaternion of norm below 1e-6), zeroes both bias triples,
\* sets P to the diagonal (10,10,10, 1,1,1, 0.1,0.1,0.1,0.1, 0.01,0.01,0.01,
\* 0.1,0.1,0.1) with zero off-diagonal entries and sets initialized
C12_InitialStateWritten ==
    last.op = "ekf_set_initial_state" =>
        /\ last.ret
        /\ ekf.initialized
        /\ \E s \in InitialStates :
               /\ <<X(ekf, 0), X(ekf, 1), X(ekf, 2)>> = V3(s.pos)
               /\ <<X(ekf, 3), X(ekf, 4), X(ekf, 5)>> = V3(s.vel)
               /\ \/ /\ BelowEps(quaternion_magnitude(s.q))
                     /\ <<X(ekf, 6), X(ekf, 7), X(ekf, 8), X(ekf, 9)>> = <<F(1, 1), 0, 0, 0>>
                  \/ /\ ~BelowEps(quaternion_magnitude(s.q))
                     /\ Abs(StoredQuaternionNorm(ekf) - F(1, 1)) <= 2
                     /\ \A k \in 6..9 :
                            Abs(FMul(X(ekf, k), quaternion_magnitude(s.q))
                                - <<s.q.w, s.q.x, s.q.y, s.q.z>>[k - 5]) <= 2
        /\ \A i \in EKF_STATE_GYRO_BIAS_X..EKF_STATE_ACC_BIAS_Z : X(ekf, i) = 0
        /\ IsDiagonalOf(ekf.P,
               <<F(10, 1), F(10, 1), F(10, 1), F(1, 1), F(1, 1), F(1, 1),
                 F(1, 10), F(1, 10), F(1, 10), F(1, 10),
                 F(1, 100), F(1, 100), F(1, 100), F(1, 10), F(1, 10), F(1, 10)>>)

\* set_initial_state, with a quaternion that is not unit, on a running filter
\* that has correlated covariance and biases
C12_RestartOfRunningFilter ==
    /\ last.op = "ekf_set_initial_state" /\ pre.initialized /\ HasHistory(pre)
    /\ X(ekf, EKF_STATE_QUAT_X) = F(1, 1)

\* what an accessor returns when it has no estimate to report
NeutralValue(op) ==
    IF op = "ekf_get_attitude" THEN <<F(1, 1), 0, 0, 0>> ELSE <<0, 0, 0>>

\* C13: on an uninitialized filter every accessor, ekf_get_euler included,
\* succeeds with neutral values (zero vector, identity quaternion, zero
\* angles), and no accessor modifies the filter
C13_AccessorsReturnNeutral ==
    /\ (last.op \in AccessorOps /\ ~pre.initialized) =>
           last.ret /\ out = NeutralValue(last.op)
    /\ last.op \in AccessorOps => ekf = pre

BiasIndices == EKF_STATE_GYRO_BIAS_X..EKF_STATE_ACC_BIAS_Z

StoredQuaternion(e) ==
    quaternion_create(X(e, EKF_STATE_QUAT_W), X(e, EKF_STATE_QUAT_X),
                      X(e, EKF_STATE_QUAT_Y), X(e, EKF_STATE_QUAT_Z))

\* the attitude a predict starts from: the stored quaternion, renormalized
PriorAttitude == quaternion_normalize(StoredQuaternion(pre))

\* the velocity that the last predict leaves when the bias-corrected
\* acceleration is rotated into NED with the attitude q
VelocityRotatedWith(q) ==
    With(vector3f_subtract(
             quaternion_rotate_vector(q,
                 vector3f_create(Motion.accel.x - X(pre, EKF_STATE_ACC_BIAS_X),
                                 Motion.accel.y - X(pre, EKF_STATE_ACC_BIAS_Y),
                                 Motion.accel.z - X(pre, EKF_STATE_ACC_BIAS_Z))),
             vector3f_create(0, 0, pre.gravity)),
         LAMBDA a_ned :
         <<X(pre, EKF_STATE_VEL_X) + FMul(a_ned.x, last.dt),
           X(pre, EKF_STATE_VEL_Y) + FMul(a_ned.y, last.dt),
           X(pre, EKF_STATE_VEL_Z) + FMul(a_ned.z, last.dt)>>)

StoredVelocity(e) == <<X(e, EKF_STATE_VEL_X), X(e, EKF_STATE_VEL_Y), X(e, EKF_STATE_VEL_Z)>>

SuccessfulPredict == last.op = "ekf_predict" /\ last.ret

\* C15 as stated: within one predict the bias-corrected acceleration is rotated
\* into NED with the attitude as it was before the call's quaternion integration
C15_RotatesWithPriorAttitude ==
    SuccessfulPredict => StoredVelocity(ekf) = VelocityRotatedWith(PriorAttitude)

\* C15 as amended: within one predict the bias-corrected acceleration is
\* rotated into NED with the normalized attitude that the call's quaternion
\* integration produced, the one the call stores in x[6..9]
C15_RotatesWithIntegratedAttitude ==
    SuccessfulPredict => StoredVelocity(ekf) = VelocityRotatedWith(StoredQuaternion(ekf))

\* a predict that turned the attitude enough for the two rotations to differ
C15_AttitudeTurned ==
    /\ SuccessfulPredict
    /\ VelocityRotatedWith(PriorAttitude) # VelocityRotatedWith(StoredQuaternion(ekf))

\* C16: predict, successful or not, leaves the gyroscope-bias and
\* accelerometer-bias components x[10..15] as they were
C16_PredictKeepsBiases ==
    last.op = "ekf_predict" => \A i \in BiasIndices : X(ekf, i) = X(pre, i)

\* a successful predict on a filter whose bias estimate is not zero
C16_PredictWithBiases == SuccessfulPredict /\ \E i \in BiasIndices : X(pre, i) # 0

\* C17: from set_initial_state at the origin with identity attitude, predicts
\* with gyro = 0 and accel = (0, 0, g) leave position, velocity and attitude
\* unchanged
C17_StaticStateIsFixedPoint ==
    (life = "ekf_set_initial_state" /\ since.origin /\ since.ops \subseteq {"ekf_predict"}) =>
        AtOrigin(ekf)

\* four static predicts, of both step sizes, made from the origin
C17_FourStaticPredicts ==
    /\ life = "ekf_set_initial_state" /\ since.origin /\ since.n = 4
    /\ SuccessfulPredict /\ last.dt = F(1, 100)

UnitVector(k) == vector3f_create(IF k = 0 THEN F(1, 1) ELSE 0,
                                 IF k = 1 THEN F(1, 1) ELSE 0,
                                 IF k = 2 THEN F(1, 1) ELSE 0)

\* row r of the quaternion increment 1/2 * q (x) (0, omega) * dt that predict adds
QuaternionIncrement(q, omega, dt, r) ==
    With(quaternion_derivative(q, omega), LAMBDA q_dot :
         FMul(<<q_dot.w, q_dot.x, q_dot.y, q_dot.z>>[r + 1], dt))

\* the partial derivative of that increment with respect to component k of the
\* gyro bias: the increment is linear in omega - b_g, so the partial is the
\* difference of the increments at b_g = e_k and at b_g = 0, whatever omega is
IncrementPartial(q, dt, r, k) ==
    QuaternionIncrement(q, vector3f_subtract(vector3f_zero, UnitVector(k)), dt, r)
        - QuaternionIncrement(q, vector3f_zero, dt, r)

\* C18: the block F[q_w..q_z][b_gx..b_gz] that ekf_compute_jacobian builds is
\* the partial derivative, with respect to the gyro bias, of the quaternion
\* increment 1/2 * q (x) (0, omega - b_g) * dt that predict applies (two grid
\* spacings are allowed for the order of the roundings)
C18_GyroBiasBlockIsPartial ==
    ekf.initialized =>
        \A dt \in StepTimes :
            With(ekf_compute_jacobian(ekf, dt), LAMBDA Fm :
            With(quaternion_normalize(StoredQuaternion(ekf)), LAMBDA q :
                \A r \in 0..3 : \A k \in 0..2 :
                    Abs(At(Fm, EKF_STATE_QUAT_W + r, EKF_STATE_GYRO_BIAS_X + k)
                        - IncrementPartial(q, dt, r, k)) <= 2))

\* the block is the partial with respect to the rate omega, which is the
\* negative of the partial with respect to the bias
GyroBiasBlockIsRatePartial ==
    ekf.initialized =>
        \A dt \in StepTimes :
            With(ekf_compute_jacobian(ekf, dt), LAMBDA Fm :
            With(quaternion_normalize(StoredQuaternion(ekf)), LAMBDA q :
                \A r \in 0..3 : \A k \in 0..2 :
                    Abs(At(Fm, EKF_STATE_QUAT_W + r, EKF_STATE_GYRO_BIAS_X + k)
                        + IncrementPartial(q, dt, r, k)) <= 2))

QuaternionTuple(q) == <<q.w, q.x, q.y, q.z>>

\* the quaternion q with d added to its component k (0 = w .. 3 = z)
Nudged(q, k, d) ==
    quaternion_create(q.w + (IF k = 0 THEN d ELSE 0), q.x + (IF k = 1 THEN d ELSE 0),
                      q.y + (IF k = 2 THEN d ELSE 0), q.z + (IF k = 3 THEN d ELSE 0))

\* q is one of the eight unit quaternions along an axis, whose products with
\* any vector are exact on the grid
IsAxisQuaternion(q) ==
    \E k \in 1..4 : /\ Abs(QuaternionTuple(q)[k]) = F(1, 1)
                    /\ \A l \in (1..4) \ {k} : QuaternionTuple(q)[l] = 0

\* component i of the partial derivative of the rotation Rot(q, m) with respect
\* to component k of q: Rot is quadratic in q, so the central difference with a
\* unit step is the derivative
RotationPartial(Rot(_, _), q, m, i, k) ==
    RoundDiv(V3(Rot(Nudged(q, k, F(1, 1)), m))[i + 1]
                 - V3(Rot(Nudged(q, k, -F(1, 1)), m))[i + 1], 2)

\* the columns of H and of the Jacobian of Rot agree at the quaternion q of the
\* filter e, in the directions that keep q a unit quaternion
AgreesWithJacobianOf(Rot(_, _), e) ==
    With(ekf_compute_mag_jacobian(e), LAMBDA H :
    With(StoredQuaternion(e), LAMBDA q :
        \A i \in 0..2 : \A k \in 0..3 :
            QuaternionTuple(q)[k + 1] = 0 =>
                At(H, i, EKF_STATE_QUAT_W + k)
                    = RotationPartial(Rot, q, e.earth_mag_ned, i, k)))

MagUpdateAtAxis ==
    last.op = "ekf_update_mag" /\ pre.initialized /\ IsAxisQuaternion(StoredQuaternion(pre))

\* C19: the H that update_mag uses is the Jacobian of the prediction
\* h(x) = R(q)' * m_ref that the same update subtracts from the measurement: it
\* is zero outside the quaternion columns and its quaternion columns are the
\* partial derivatives of R(q)' * m_ref (compared at the axis quaternions, in
\* the directions tangent to the unit sphere)
C19_MagJacobianMatchesPrediction ==
    MagUpdateAtAxis =>
        /\ \A i \in 0..2 : \A j \in StateIndices :
               (j < EKF_STATE_QUAT_W \/ j > EKF_STATE_QUAT_Z) =>
                   At(ekf_compute_mag_jacobian(pre), i, j) = 0
        /\ AgreesWithJacobianOf(quaternion_rotate_vector_inverse, pre)

\* the H that update_mag uses is the Jacobian of the forward rotation R(q) * m_ref
MagJacobianIsOfForwardRotation ==
    MagUpdateAtAxis => AgreesWithJacobianOf(quaternion_rotate_vector, pre)

\* C20: for every requested size in 0..255, matrix_create and matrix_identity
\* return rows and cols of at most 16 and write no cell whose row or column
\* index is 16 or more
C20_ConstructorsStayInStore ==
    /\ mat.rows <= MATRIX_MAX_SIZE /\ mat.cols <= MATRIX_MAX_SIZE
    /\ \A w \in mat.writes : w[1] < MATRIX_MAX_SIZE /\ w[2] < MATRIX_MAX_SIZE

\* ------------------------------------------------------------ matrix library calls

\* a cell data[i][j] of the store float data[16][16]
InStore(cell) == cell[1] < MATRIX_MAX_SIZE /\ cell[2] < MATRIX_MAX_SIZE

\* the cells of `augmented' that matrix_inverse addresses while it builds
\* [A | I] from a square m: data[i][j] and data[i][i + n] for every i, j < n;
\* the row operations that follow address data[i][j] for every j < 2 * n
matrix_inverse_accesses(m) ==
    IF m.rows # m.cols THEN {}
    ELSE {<<i, j>> : i \in 0..(m.rows - 1), j \in 0..(m.rows - 1)}
         \cup {<<i, i + m.rows>> : i \in 0..(m.rows - 1)}

\* the whole call matrix_inverse(&m, &result): what it returns and what it
\* leaves in the result object.  Once a cell outside the store is addressed the
\* behaviour is undefined: the call can return true with an n x n matrix that
\* is not the inverse, return true with a result whose shape was overwritten,
\* or return false
matrix_inverse_outcomes(m, result) ==
    IF m.rows # m.cols THEN {[ok |-> FALSE, result |-> result]}
    ELSE IF \A cell \in matrix_inverse_accesses(m) : InStore(cell)
         THEN {With(matrix_inverse(m), LAMBDA r :
                    [ok |-> r.ok, result |-> IF r.ok THEN r.m ELSE result])}
         ELSE {[ok |-> TRUE, result |-> matrix_create(m.rows, m.rows)],
               [ok |-> TRUE, result |-> matrix_create(0, 0)],
               [ok |-> FALSE, result |-> result]}

\* the largest |aug[j][i]|, j >= i, that each elimination step finds, up to
\* and including the first step that finds it below the threshold
RECURSIVE PivotMagnitudes(_, _)
PivotMagnitudes(aug, i) ==
    IF i >= aug.rows THEN <<>>
    ELSE With(PivotRow(aug, i, i + 1, i), LAMBDA pivot :
              IF BelowEps(Abs(At(aug, pivot, i))) THEN <<Abs(At(aug, pivot, i))>>
              ELSE <<Abs(At(aug, pivot, i))>>
                   \o PivotMagnitudes(
                          Eliminate(NormalizeRow(SwapRows(aug, i, pivot), i), i),
                          i + 1))

\* --- inputs of the library calls

\* the matrix with the given integer entries
MatrixOf(entries) ==
    LET E(i, j) == F(entries[i + 1][j + 1], 1)
    IN  MkMatrix(Len(entries), Len(entries[1]), E)

\* invertible, with a condition number below 10, of the sizes that the filter
\* inverts: permutation matrices (all of size 3, the cyclic shifts of size 6),
\* diagonal matrices, and matrices that need a row exchange at some step
WellConditioned ==
    LET PermutationOf(p) == MkMatrix(Len(p), Len(p),
                                     LAMBDA i, j : IF p[i + 1] = j + 1 THEN F(1, 1) ELSE 0)
        Permutations3 == {p \in [1..3 -> 1..3] : \A i, j \in 1..3 : p[i] = p[j] => i = j}
        CyclicShifts6 == {[i \in 1..6 |-> ((i - 1 + k) % 6) + 1] : k \in 0..5}
    IN  {PermutationOf(Tup(p)) : p \in Permutations3 \cup CyclicShifts6}
        \cup {matrix_diagonal(matrix_create(n, n), F(d, 1)) : n \in {1, 3, 6}, d \in {1, 2, -4}}
        \cup {MatrixOf(<<<<0, 2, 0>>, <<1, 0, 0>>, <<0, 0, 4>>>>),
              MatrixOf(<<<<0, 0, -1>>, <<0, 2, 0>>, <<1, 0, 0>>>>),
              MatrixOf(<<<<4, 1, 0>>, <<1, 3, 1>>, <<0, 1, 2>>>>),
              MatrixOf(<<<<1, 1, 0>>, <<0, 1, 1>>, <<0, 0, 1>>>>),
              MatrixOf(<<<<0, 1, 0, 0, 0, 0>>, <<2, 0, 0, 0, 0, 0>>,
                         <<0, 0, 0, 0, 0, 1>>, <<0, 0, 0, 4, 0, 0>>,
                         <<0, 0, 1, 0, 1, 0>>, <<0, 0, 1, 0, 0, 0>>>>),
              MatrixOf(<<<<4, 1, 0, 0, 0, 0>>, <<1, 4, 1, 0, 0, 0>>,
                         <<0, 1, 4, 1, 0, 0>>, <<0, 0, 1, 4, 1, 0>>,
                         <<0, 0, 0, 1, 4, 1>>, <<0, 0, 0, 0, 1, 4>>>>)}

\* invertible, of every size that a Matrix can have
Invertible ==
    WellConditioned
    \cup {matrix_diagonal(matrix_create(n, n), F(d, 1)) : n \in 1..MATRIX_MAX_SIZE, d \in {1, 2}}

\* singular: the zero matrices, and matrices whose dependent rows show at the
\* first, a middle or the last elimination step
Singular ==
    {matrix_create(n, n) : n \in {1, 3, 6, MATRIX_MAX_SIZE}}
    \cup {MatrixOf(<<<<0, 1, 2>>, <<0, 3, 4>>, <<0, 5, 6>>>>),
          MatrixOf(<<<<1, 1, 0>>, <<1, 1, 0>>, <<0, 0, 1>>>>),
          MatrixOf(<<<<1, 0, 0>>, <<0, 1, 1>>, <<0, 1, 1>>>>),
          MatrixOf(<<<<2, 4>>, <<1, 2>>>>),
          MatrixOf(<<<<1, 0, 0, 0, 0, 0>>, <<0, 1, 0, 0, 0, 0>>,
                     <<0, 0, 1, 0, 0, 1>>, <<0, 0, 0, 1, 0, 0>>,
                     <<0, 0, 0, 0, 1, 0>>, <<0, 0, 2, 0, 0, 2>>>>)}

NonSquare ==
    {MatrixOf(<<<<1, 2>>>>), MatrixOf(<<<<1>>, <<2>>>>),
     MatrixOf(<<<<1, 0, 0>>, <<0, 1, 0>>>>),
     MatrixOf(<<<<1, 0>>, <<0, 1>>, <<0, 0>>>>),
     matrix_create(6, 3), matrix_create(MATRIX_MAX_SIZE, 1)}

\* the result object as it is before the call
ResultObjects == {matrix_create(0, 0), MatrixOf(<<<<7, 7>>, <<7, 7>>>>)}

\* --- the calls


\* the record of a call matrix_inverse(&m, &result) with the outcome o
Inverted(m, before, o) ==
    [op |-> "matrix_inverse", m |-> m, before |-> before, ret |-> o.ok,
     result |-> o.result, accesses |-> matrix_inverse_accesses(m)]

MatrixInverse ==
    \E m \in Invertible \cup Singular \cup NonSquare : \E before \in ResultObjects :
        \E o \in matrix_inverse_outcomes(m, before) :
            Constructor(Inverted(m, before, o))

\* --- the arithmetic calls.  Each takes the result object as it is before the
\* call and the operand, if any, that is this same object (alias): the call
\* overwrites *result with matrix_create(...) before it reads its operands, so
\* an aliased operand is read as the zero matrix just created

matrix_add_call(a, b, result, alias) ==
    IF a.rows # b.rows \/ a.cols # b.cols THEN [ok |-> FALSE, result |-> result]
    ELSE [ok |-> TRUE, result |-> matrix_add(a, b, alias)]

matrix_subtract_call(a, b, result, alias) ==
    IF a.rows # b.rows \/ a.cols # b.cols THEN [ok |-> FALSE, result |-> result]
    ELSE [ok |-> TRUE,
          result |-> matrix_subtract(
                         IF alias = "a" THEN matrix_create(a.rows, a.cols) ELSE a,
                         IF alias = "b" THEN matrix_create(a.rows, a.cols) ELSE b)]

\* a result that has left the check too late: it is created before the shapes
\* are compared
matrix_multiply_call_creating_first(a, b, result, alias) ==
    IF a.cols # b.rows THEN [ok |-> FALSE, result |-> matrix_create(a.rows, b.cols)]
    ELSE [ok |-> TRUE,
          result |-> matrix_multiply(
                         IF alias = "a" THEN matrix_create(a.rows, b.cols) ELSE a,
                         IF alias = "b" THEN matrix_create(a.rows, b.cols) ELSE b)]

\* aliased operands are square and of one size (see Aliasable): the created
\* matrix then covers every cell that the products read
matrix_multiply_call(a, b, result, alias) ==
    IF a.cols # b.rows THEN [ok |-> FALSE, result |-> result]
    ELSE [ok |-> TRUE,
          result |-> matrix_multiply(
                         IF alias = "a" THEN matrix_create(a.rows, b.cols) ELSE a,
                         IF alias = "b" THEN matrix_create(a.rows, b.cols) ELSE b)]

\* b is not an operand of matrix_scale and matrix_transpose
matrix_scale_call(a, scalar, result, alias) ==
    [ok |-> TRUE,
     result |-> matrix_scale(IF alias = "a" THEN matrix_create(a.rows, a.cols) ELSE a,
                             scalar)]

\* aliased, every cell data[i][j] that the loops read lies in the cols x rows
\* matrix just created
matrix_transpose_call(a, result, alias) ==
    [ok |-> TRUE,
     result |-> IF alias = "a" THEN matrix_create(a.cols, a.rows)
                ELSE matrix_transpose(a)]

\* [ok, result]: result is the matrix m after the call
matrix_set_call(m, row, col, value) ==
    [ok |-> ~(row >= m.rows \/ col >= m.cols), result |-> matrix_set(m, row, col, value)]

\* [ok, result]: result is *value after the call; the output pointer is not
\* NULL
matrix_get_call(m, row, col, value) ==
    IF row >= m.rows \/ col >= m.cols THEN [ok |-> FALSE, result |-> value]
    ELSE [ok |-> TRUE, result |-> matrix_get(m, row, col)]

ArithmeticOps ==
    {"matrix_add", "matrix_subtract", "matrix_multiply", "matrix_scale", "matrix_transpose"}

\* operands: 1 x 1, 2 x 2, 2 x 3, 3 x 2 and, as x and dx are, 16 x 1
Operands ==
    {MatrixOf(<<<<3>>>>),
     MatrixOf(<<<<1, 2>>, <<3, 4>>>>), MatrixOf(<<<<0, -1>>, <<1, 0>>>>),
     MatrixOf(<<<<1, 2, 3>>, <<4, 5, 6>>>>), MatrixOf(<<<<1, 0>>, <<0, 1>>, <<2, 2>>>>),
     MkMatrix(EKF_STATE_DIM, 1, LAMBDA i, j : F(i + 1, 1)),
     MkMatrix(EKF_STATE_DIM, 1, LAMBDA i, j : F(i % 3, 2))}

\* the result object may be the operand a or b of the call; for a product the
\* two operands are then square and of one size, as P and F are
Aliasable(op, a, b, alias) ==
    \/ alias = "none"
    \/ alias = "a" /\ (op = "matrix_multiply" => a.rows = a.cols /\ b.rows = b.cols)
    \/ /\ alias = "b" /\ op \in {"matrix_add", "matrix_subtract", "matrix_multiply"}
       /\ op = "matrix_multiply" => a.rows = a.cols /\ b.rows = b.cols

\* the call op(a, b or scalar, result); distinct is what the same call leaves
\* in a result object of its own
MatrixArithmetic ==
    LET Arithmetic(op, a, b, scalar, result, alias) ==
            CASE op = "matrix_add" -> matrix_add_call(a, b, result, alias)
              [] op = "matrix_subtract" -> matrix_subtract_call(a, b, result, alias)
              [] op = "matrix_multiply" -> matrix_multiply_call(a, b, result, alias)
              [] op = "matrix_scale" -> matrix_scale_call(a, scalar, result, alias)
              [] op = "matrix_transpose" -> matrix_transpose_call(a, result, alias)
    IN
    \E op \in ArithmeticOps : \E a \in Operands : \E b \in Operands :
      \E scalar \in {F(1, 2)} : \E alias \in {"none", "a", "b"} :
        \E before \in (CASE alias = "a" -> {a} [] alias = "b" -> {b}
                         [] OTHER -> ResultObjects) :
          /\ Aliasable(op, a, b, alias)
          /\ op \in {"matrix_scale", "matrix_transpose"} => b = a
          /\ \E o \in {Arithmetic(op, a, b, scalar, before, alias)} :
               Constructor([op |-> op, a |-> a, b |-> b, scalar |-> scalar,
                            alias |-> alias, before |-> before,
                            ret |-> o.ok, result |-> o.result,
                            distinct |-> Arithmetic(op, a, b, scalar,
                                                    matrix_create(0, 0), "none").result])

\* matrix_set and matrix_get with every index of a uint8_t that is inside,
\* at the edge of or beyond the shape
MatrixElement ==
    \E m \in {MatrixOf(<<<<1, 2, 3>>, <<4, 5, 6>>>>), matrix_identity(MATRIX_MAX_SIZE)} :
      \E row \in {0, 1, 2, 15, 16, UInt8Max} : \E col \in {0, 2, 3, 15, 16, UInt8Max} :
        \/ \E o \in {matrix_set_call(m, row, col, F(9, 1))} :
             Constructor([op |-> "matrix_set", a |-> m, row |-> row, col |-> col,
                          before |-> m, ret |-> o.ok, result |-> o.result])
        \/ \E o \in {matrix_get_call(m, row, col, F(9, 1))} :
             Constructor([op |-> "matrix_get", a |-> m, row |-> row, col |-> col,
                          before |-> F(9, 1), ret |-> o.ok, result |-> o.result])

\* --- quaternion_rotate_vector with every quaternion q, unit or not, and
\* vector v whose components are whole numbers: their products are exact

QuaternionRotate ==
    \E w \in {-1, 0, 1, 2} : \E x \in {-1, 0, 1, 2} :
      \E y \in {-1, 0, 1, 2} : \E z \in {-1, 0, 1, 2} :
        \E v \in {Vec(1, 0, 0), Vec(0, 1, 0), Vec(0, 0, 1), Vec(1, 2, 3), Vec(-2, 0, 1)} :
          \E q \in {quaternion_create(F(w, 1), F(x, 1), F(y, 1), F(z, 1))} :
            Constructor([op |-> "quaternion_rotate_vector", q |-> q, v |-> v,
                         result |-> quaternion_rotate_vector(q, v)])

\* --- the Vector3f helpers, defined in quaternion.c and again in vector3f.c

vector3f_add(v1, v2) == vector3f_create(v1.x + v2.x, v1.y + v2.y, v1.z + v2.z)

vector3f_scale(v, scalar) ==
    vector3f_create(FMul(v.x, scalar), FMul(v.y, scalar), FMul(v.z, scalar))

vector3f_cross(v1, v2) ==
    vector3f_create(FMul(v1.y, v2.z) - FMul(v1.z, v2.y),
                    FMul(v1.z, v2.x) - FMul(v1.x, v2.z),
                    FMul(v1.x, v2.y) - FMul(v1.y, v2.x))

\* A float keeps its relative precision however small it is, a grid point does
\* not: the square of a component below the grid step would round to zero.
\* So the squares are summed exactly and only the root is rounded; the result
\* is then the magnitude on whatever grid holds v.
vector3f_magnitude(v) ==
    With(v.x * v.x + v.y * v.y + v.z * v.z, LAMBDA n :
         With(ISqrtBetween(n, 0, 46340), LAMBDA r :
              IF n - r * r > r THEN r + 1 ELSE r))

\* a grid fine enough to hold vectors shorter than 1e-6: 1e-6 is 400 grid
\* points
FineScale == 400000 * Scale

\* v * (1 / magnitude), rounded once to a multiple of 1 / Scale: the product of
\* floats carries the relative precision of a float.  unit is the number of
\* grid points per 1.0 on the grid that holds v (Scale, or FineScale for the
\* shortest vectors)
Normalized(v, magnitude, unit) ==
    vector3f_create(RoundDiv(v.x * Scale, magnitude) * (unit \div Scale),
                    RoundDiv(v.y * Scale, magnitude) * (unit \div Scale),
                    RoundDiv(v.z * Scale, magnitude) * (unit \div Scale))

\* quaternion.c: `magnitude < 1e-6f' gives the zero vector
vector3f_normalize(v, unit) ==
    With(vector3f_magnitude(v), LAMBDA magnitude :
         IF magnitude < (unit + EpsDen - 1) \div EpsDen THEN vector3f_zero
         ELSE Normalized(v, magnitude, unit))

\* vector3f.c: the result starts as v and is scaled when `mag > 1e-6f'
vector3f_normalize_vector3f_c(v, unit) ==
    With(vector3f_magnitude(v), LAMBDA mag :
         IF mag > unit \div EpsDen THEN Normalized(v, mag, unit) ELSE v)

\* vector3f_normalize of vectors of ordinary length and of vectors around 1e-6
\* long, by either definition
VectorNormalize ==
    \E unit \in {Scale, FineScale} :
      \E x \in {-2, 0, 1, 3, 4} : \E y \in {0, 1, 5} : \E z \in {-3, 0, 2} :
        \E v \in {IF unit = Scale THEN Vec(x, y, z) ELSE vector3f_create(100 * x, 100 * y, 100 * z)} :
          Constructor([op |-> "vector3f_normalize", v |-> v, unit |-> unit,
                       in_quaternion_c |-> vector3f_normalize(v, unit),
                       in_vector3f_c |-> vector3f_normalize_vector3f_c(v, unit)])

\* ------------------------------------------------------------ ekf_mag_calibration.c

vector3f_dot(v1, v2) == FMul(v1.x, v2.x) + FMul(v1.y, v2.y) + FMul(v1.z, v2.z)

\* dcm[0..8]: the rows North, East, Down.  The file includes math/vector3f.h,
\* so vector3f_normalize is the definition of vector3f.c
ekf_compute_ned_transform(accel) ==
    With(vector3f_normalize_vector3f_c(vector3f_scale(accel, -F(1, 1)), Scale),
         LAMBDA down :
    With(vector3f_normalize_vector3f_c(
             vector3f_cross(down, vector3f_create(0, F(1, 1), 0)), Scale),
         LAMBDA north :
    With(vector3f_normalize_vector3f_c(vector3f_cross(north, down), Scale),
         LAMBDA east :
         <<north.x, north.y, north.z, east.x, east.y, east.z,
           down.x, down.y, down.z>>)))

ekf_convert_to_ned(vec_body, dcm) ==
    vector3f_create(
        FMul(dcm[1], vec_body.x) + FMul(dcm[2], vec_body.y) + FMul(dcm[3], vec_body.z),
        FMul(dcm[4], vec_body.x) + FMul(dcm[5], vec_body.y) + FMul(dcm[6], vec_body.z),
        FMul(dcm[7], vec_body.x) + FMul(dcm[8], vec_body.y) + FMul(dcm[9], vec_body.z))

\* averaged accelerometer readings: at rest with either sign convention,
\* tilted, along the body x axis, along (0, 1, 0), and none at all
NedTransform ==
    \E accel \in {vector3f_create(0, 0, -Gravity), vector3f_create(0, 0, Gravity),
                  vector3f_create(F(1, 1), 0, Gravity), Vec(3, 0, -4), Vec(1, 2, 2),
                  Vec(-2, 1, 2), Vec(5, 0, 0), Vec(0, 5, 0), Vec(0, 0, 0)} :
        Constructor([op |-> "ekf_compute_ned_transform", accel |-> accel,
                     dcm |-> ekf_compute_ned_transform(accel)])

\* a pointer to samples is NULL or points to the samples at[1], at[2], ...;
\* the average of the first sample_count samples of each sensor, turned with
\* the matrix of ekf_compute_ned_transform and normalized
ekf_calibrate_magnetic_field(mag_samples, accel_samples, sample_count) ==
    IF mag_samples.null \/ accel_samples.null \/ sample_count <= 0 THEN DefaultMagNed
    ELSE LET RECURSIVE Sum(_, _)
             Sum(samples, n) == IF n = 0 THEN vector3f_zero
                                ELSE vector3f_add(Sum(samples, n - 1), samples[n])
         IN  With(FDiv(F(1, 1), F(sample_count, 1)), LAMBDA inv :
                  vector3f_normalize_vector3f_c(
                      ekf_convert_to_ned(
                          vector3f_scale(Sum(mag_samples.at, sample_count), inv),
                          ekf_compute_ned_transform(
                              vector3f_scale(Sum(accel_samples.at, sample_count), inv))),
                      Scale))

\* --- ekf_init.c, the reference field from samples; [ret, ekf]

\* a call that gives up on missing samples: the reference field is kept
ekf_initialize_magnetic_field_keeping_reference(e, mag_samples, accel_samples, sample_count) ==
    IF mag_samples.null \/ accel_samples.null \/ sample_count <= 0
    THEN [ret |-> FALSE, ekf |-> e]
    ELSE [ret |-> TRUE,
          ekf |-> [e EXCEPT !.earth_mag_ned =
                       ekf_calibrate_magnetic_field(mag_samples, accel_samples, sample_count)]]

ekf_initialize_magnetic_field(e, mag_samples, accel_samples, sample_count) ==
    IF mag_samples.null \/ accel_samples.null \/ sample_count <= 0
    THEN [ret |-> TRUE, ekf |-> ekf_initialize_default_magnetic_field(e)]
    ELSE [ret |-> TRUE,
          ekf |-> [e EXCEPT !.earth_mag_ned =
                       ekf_calibrate_magnetic_field(mag_samples, accel_samples, sample_count)]]

\* two samples of each sensor are at hand; the count given is at most that
InitializeMagneticField ==
    \E mag_samples \in {[null |-> TRUE, at |-> <<>>],
                        [null |-> FALSE,
                         at |-> <<vector3f_create(F(2, 10), 0, F(4, 10)),
                                  vector3f_create(F(4, 10), F(2, 10), F(4, 10))>>]} :
      \E accel_samples \in {[null |-> TRUE, at |-> <<>>],
                            [null |-> FALSE,
                             at |-> <<vector3f_create(0, 0, -Gravity),
                                      vector3f_create(F(2, 1), 0, -Gravity)>>]} :
        \E sample_count \in {-1, 0, 1, 2} :
          \E r \in {ekf_initialize_magnetic_field(ekf, mag_samples, accel_samples,
                                                  sample_count)} :
            Call(r.ekf,
                 Plain("ekf_initialize_magnetic_field", r.ret, 0)
                     @@ [mag_samples |-> mag_samples, accel_samples |-> accel_samples,
                         sample_count |-> sample_count],
                 out)

\* the reference field is set by hand, measured from samples or defaulted, on
\* a filter that is started at some point
NextMag ==
    \/ MayCall /\ SetInitialState
    \/ MayCall /\ SetEarthMagneticField
    \/ MayCall /\ InitializeMagneticField

SpecMag == Init /\ [][NextMag]_vars

\* ------------------------------------------------------------ the math library on its own

\* the calls are independent of each other: each behaviour makes one
MayCallLibrary == mat.op = "none"

\* the functions of the math library, each called directly
NextLibrary ==
    \/ MayCallLibrary /\ MatrixInverse
    \/ MayCallLibrary /\ MatrixArithmetic
    \/ MayCallLibrary /\ MatrixElement
    \/ MayCallLibrary /\ QuaternionRotate
    \/ MayCallLibrary /\ VectorNormalize
    \/ MayCallLibrary /\ NedTransform

SpecLibrary == Init /\ [][NextLibrary]_vars

\* ------------------------------------------------------------ properties of the matrix library

\* the largest error that counts as equal for a product of rounded numbers
InverseTolerance == F(1, 100)

\* r has the shape of m, and m * r is the identity within the tolerance
IsInverseOf(r, m) ==
    /\ r.rows = m.rows /\ r.cols = m.cols
    /\ With(matrix_multiply(m, r), LAMBDA p :
            \A i \in 0..(m.rows - 1) : \A j \in 0..(m.rows - 1) :
                Abs(At(p, i, j) - (IF i = j THEN F(1, 1) ELSE 0)) <= InverseTolerance)

\* C21: matrix_inverse of an invertible n x n matrix, for every n in 1..16,
\* returns true with the inverse, and addresses no cell outside the 16 x 16
\* store of a matrix
C21_InverseAtEverySize ==
    mat.op = "matrix_inverse" /\ mat.m \in Invertible =>
        /\ \A cell \in mat.accesses : InStore(cell)
        /\ mat.ret
        /\ IsInverseOf(mat.result, mat.m)

\* C22: for n in {1, 3, 6} and every well-conditioned n x n matrix A, also one
\* whose leading diagonal entry is zero so that rows must be exchanged,
\* matrix_inverse returns true and A times the result is the identity
C22_InverseOfWellConditioned ==
    mat.op = "matrix_inverse" /\ mat.m \in WellConditioned =>
        mat.ret /\ IsInverseOf(mat.result, mat.m)

\* a 6 x 6 matrix with a zero in the leading diagonal entry has been inverted
C22_RowExchangeInverted ==
    /\ mat.op = "matrix_inverse" /\ mat.m \in WellConditioned
    /\ mat.m.rows = 6 /\ At(mat.m, 0, 0) = 0
    /\ mat.ret

\* at some elimination step i of the square matrix m, every entry of column i
\* in the rows i..n-1 is below the threshold
SingularAtSomeStep(m) ==
    /\ m.rows = m.cols
    /\ With(PivotMagnitudes(Augmented(m), 0), LAMBDA found :
            \E i \in DOMAIN found : BelowEps(found[i]))

\* C23: matrix_inverse returns false for every non-square input and for every
\* square input that shows, at some elimination step i, only entries below
\* 1e-6 in column i from row i down; the result object is then as it was before
\* the call
C23_FailureLeavesResult ==
    mat.op = "matrix_inverse" /\ (mat.m.rows # mat.m.cols \/ SingularAtSomeStep(mat.m)) =>
        ~mat.ret /\ mat.result = mat.before

\* C24: matrix_add and matrix_subtract on operands of different shape,
\* matrix_multiply with a.cols # b.rows, and matrix_set and matrix_get with a
\* row or column index at or beyond the shape all return false and leave the
\* destination matrix, or the output value, as it was
C24_RejectedCallLeavesDestination ==
    LET rejected ==
            \/ /\ mat.op \in {"matrix_add", "matrix_subtract"}
               /\ mat.a.rows # mat.b.rows \/ mat.a.cols # mat.b.cols
            \/ mat.op = "matrix_multiply" /\ mat.a.cols # mat.b.rows
            \/ /\ mat.op \in {"matrix_set", "matrix_get"}
               /\ mat.row >= mat.a.rows \/ mat.col >= mat.a.cols
    IN  rejected => ~mat.ret /\ mat.result = mat.before

\* a product of a 2 x 3 and a 2 x 2 matrix has been asked for, into a result
\* object that held a 2 x 2 matrix
C24_MismatchedProduct ==
    /\ mat.op = "matrix_multiply" /\ mat.alias = "none"
    /\ mat.a.cols = 3 /\ mat.b.rows = 2
    /\ mat.before.rows = 2
    /\ ~mat.ret

\* C28: each of matrix_add, matrix_subtract, matrix_multiply, matrix_scale and
\* matrix_transpose leaves in its result the same matrix when the result
\* object is one of its operands as when it is an object of its own; so does
\* the call matrix_add(&x, &dx, &x) that applies the state correction
C28_AliasedCallGivesSameResult ==
    mat.op \in ArithmeticOps /\ mat.alias # "none" /\ mat.ret =>
        mat.result = mat.distinct

\* ------------------------------------------------------------ properties of the quaternion and vector helpers

C27_NormalizeDefinitionsAgree ==
    mat.op = "vector3f_normalize" =>
        /\ vector3f_magnitude(mat.v) < (mat.unit + EpsDen - 1) \div EpsDen =>
               mat.in_quaternion_c = vector3f_zero /\ mat.in_vector3f_c = vector3f_zero
        /\ mat.in_quaternion_c = mat.in_vector3f_c

\* ------------------------------------------------------------ properties of the magnetometer calibration

\* the row k (0 North, 1 East, 2 Down) of a direction-cosine matrix
DcmRow(dcm, k) == vector3f_create(dcm[3 * k + 1], dcm[3 * k + 2], dcm[3 * k + 3])

\* equal within 0.01
Near(a, b) == Abs(a - b) <= F(1, 100)

NearVector(v1, v2) == Near(v1.x, v2.x) /\ Near(v1.y, v2.y) /\ Near(v1.z, v2.z)

\* the three rows are unit vectors, orthogonal to each other
Orthonormal(dcm) ==
    /\ \A k \in 0..2 : Near(vector3f_magnitude(DcmRow(dcm, k)), Scale)
    /\ \A k \in 0..2 : \A l \in 0..2 :
           k # l => Near(vector3f_dot(DcmRow(dcm, k), DcmRow(dcm, l)), 0)

\* North . (East x Down)
Determinant(dcm) ==
    vector3f_dot(DcmRow(dcm, 0), vector3f_cross(DcmRow(dcm, 1), DcmRow(dcm, 2)))

\* C29: for every non-zero averaged accelerometer vector that is not parallel
\* to (0, 1, 0), the rows North, East, Down of the matrix built by
\* ekf_compute_ned_transform are orthogonal unit vectors and form a
\* right-handed triad: North x East = Down, determinant +1
C29_NedTransformIsProperRotation ==
    mat.op = "ekf_compute_ned_transform" /\ (mat.accel.x # 0 \/ mat.accel.z # 0) =>
        /\ Orthonormal(mat.dcm)
        /\ NearVector(vector3f_cross(DcmRow(mat.dcm, 0), DcmRow(mat.dcm, 1)),
                      DcmRow(mat.dcm, 2))
        /\ Near(Determinant(mat.dcm), F(1, 1))

\* C25: ekf_initialize_magnetic_field called with null magnetometer samples,
\* null accelerometer samples or a sample count <= 0 sets the reference field
\* to (0.29, -0.05, 0.42) and changes no other field of the filter
C25_MissingSamplesGiveDefaultField ==
    /\ last.op = "ekf_initialize_magnetic_field"
    /\ last.mag_samples.null \/ last.accel_samples.null \/ last.sample_count <= 0
    => ekf = [pre EXCEPT !.earth_mag_ned =
                  vector3f_create(F(29, 100), -F(5, 100), F(42, 100))]

\* the call was made without magnetometer samples on a started filter whose
\* reference field had been set to another vector
C25_DefaultReplacesSetField ==
    /\ last.op = "ekf_initialize_magnetic_field"
    /\ last.mag_samples.null /\ ~last.accel_samples.null /\ last.sample_count > 0
    /\ pre.initialized
    /\ pre.earth_mag_ned # vector3f_create(F(29, 100), -F(5, 100), F(42, 100))
    /\ ekf.earth_mag_ned # pre.earth_mag_ned

\* ------------------------------------------------------------ barometer aiding

SetBaroNoiseWith(stds) ==
    \E std \in stds :
        Configure(ekf_set_baro_noise(ekf, std), "ekf_set_baro_noise")

\* a barometer-aided mission: the GPS noise, then the barometer noise are
\* configured, the initial state is set, and MaxSteps steps follow.  The
\* barometer standard deviations are the smallest whose square is stored as a
\* variance that is not below 1e-6, then 0.09, and the default 1.0
NextBaro ==
    \/ MayConfigure /\ SetGpsNoise
    \/ configured /\ calls = 1 /\ ~ekf.initialized /\ SetBaroNoiseWith({F(32, 1000), F(9, 100), F(1, 1)})
    \/ NavStart
    \/ MayStep /\ PredictWith(StepTimes)
    \/ MayStep /\ UpdateGpsWith(GpsFixes)
    \/ MayStep /\ UpdateBaroWith(BaroAltitudes)

SpecBaro == Init /\ [][NextBaro]_vars

\* C30: on an initialized filter whose barometer noise variance R_baro is at
\* least 1e-6, ekf_update_baro returns true: the innovation covariance
\* S = P[pos_d][pos_d] + R_baro is never found below 1e-6
C30_BaroUpdateSucceeds ==
    (last.op = "ekf_update_baro" /\ pre.initialized
        /\ ~BelowEps(At(pre.R_baro, 0, 0)))
    => last.ret

====
